---- MODULE Spec2Model ----
(***************************************************************************)
(* Verification model of the Dynamic App Behavior Analysis Engine:         *)
(*   - the Exploration Engine (workers/worker_definitions/app_worker_full  *)
(*     and its variant app_worker_full_2): AppWorker.process,              *)
(*   - the Device Controller (providers/core/emulator_env.py): EmulatorEnv *)
(*     behind the single shared instance of providers/api/routes_emulator. *)
(***************************************************************************)
EXTENDS Integers, Sequences, FiniteSets, TLC

VARIABLES
    \* ---- Exploration Engine (one AppWorker.process call) ----
    variant,                \* which AppWorker source file runs: "full" | "full_2"
    allowed,                \* environment of the run: the outcomes each external call may have
    upload_needed,          \* os.path.exists(app_ref)
    run_duration,           \* config app_run_duration (minutes)
    interval,               \* config app_check_interval (minutes)
    max_total_errors,       \* config max_total_errors
    max_consecutive_errors, \* config max_consecutive_errors
    reflection_enabled,     \* config reflection_switch
    memory_enabled,         \* config memory_switch
    pc,                     \* position of the run inside process
    attempt,                \* loop index i of the retry loop in progress
    steps_data,             \* the three Step Record lists
    elapsed,                \* time.time() - start_time, in minutes
    checks_count,           \* iteration index
    total_errors,
    consecutive_errors,
    vr,                     \* vis_res["result"]: the Vision answer of this iteration
    prev_screenshot_path,   \* self.prev_screenshot_path
    memory,                 \* self.memory
    ops,                    \* kinds of external calls made so far in this run
    streak,                 \* history: successive iterations whose perform_action failed
    iter_clean,             \* history: no sub-step of the current iteration failed so far
    consec_at_start,        \* history: consecutive_errors when the iteration started
    exhausted,              \* history: the preparation sub-step that used up its retries
    slept,                  \* history: seconds _retry_call slept after its latest attempt
    agg_log,                \* history: the outcome of each _final_aggregate call, in order
    dispatches,             \* history: the attempts of the perform_action call in progress
                            \* or just over: how each ended, how often the device ran it
    retval,                 \* what process returned (or the exception that escaped)
    \* ---- Device Controller (one EmulatorEnv shared by all runs) ----
    endpoints,              \* self.endpoints
    task_map,               \* self.task_map: task_id -> [endpoint, app_ref]
    app_package_cache,      \* self.app_package_cache: app_ref -> pkg_name
    installed,              \* per device (host:port): its `pm list packages -f` lines
    next_task,              \* supply of fresh task ids (uuid4)
    sessions,               \* history: number of init_device calls so far
    discovered,             \* history: package names found by diffing, with their session
    run_ref,                \* per run, the app_ref it analyses
    run_phase,              \* per run: "new" | "inited" | "installed" | "running"
    run_task,               \* per run, the task_id run_app returned (0: none yet)
    last_call,              \* history: the last Device Controller call and its outcome
    vnc_task_map,           \* task_map of the EmulatorEnv that routes_vnc.py constructs
    \* ---- One call of _strict_json_parse ----
    raw,                    \* raw_response
    keys,                   \* required_keys
    parse_result,           \* what the call returned (or the exception that escaped)
    \* ---- One call of _perform_action_once ----
    dispatcher,             \* the implementation called: app_worker_full | controller
    action_text,            \* action_str: the Action text
    post_outcome,           \* what the action endpoint does with the request
    dispatch_result,        \* what the call returned and the request it sent
    \* ---- WorkerManager (workers/core/worker_manager.py) ----
    tasks_storage,          \* the dict in insertion order: a sequence of [task_id, entries]
    next_uuid,              \* how many uuid4 values have been drawn
    mgr_call,               \* the last WorkerManager call: what it saw, did and returned
    \* ---- the loop of app_worker_openai.AppWorker.process ----
    agent_pc,               \* position in an iteration: decide | act | reflect | stopped
    iter,                   \* iter
    agent_memory,           \* memory: the text, one character per element
    output_memory,          \* output_memory of this iteration: the content to remember
    error_flag,             \* error_flag
    agent_action,           \* action: the operation the decision named
    screenshot_file,        \* the capture held by ./screenshot/screenshot.jpg (0: no file)
    last_screenshot_file,   \* the capture held by ./screenshot/last_screenshot.jpg
    captures,               \* screenshots taken so far
    agent_sent,             \* device commands sent in this iteration
    reflect_call,           \* the reflection call of this iteration, if one was made
    \* ---- POST /emulator/upload_app and the files of APKS_DIR ----
    apk_dir,                \* the directory: path -> the file (index in apk_files) it names
    apk_files,              \* the content of every file created so far, by index
    uploads,                \* per client, the upload_app request it has in flight or got answered
    uploads_started         \* upload_app requests made so far

config_vars == <<variant, allowed, upload_needed, run_duration, interval,
                 max_total_errors, max_consecutive_errors, reflection_enabled,
                 memory_enabled>>

engine_vars == <<config_vars, pc, attempt, steps_data, elapsed, checks_count,
                 total_errors, consecutive_errors, vr, prev_screenshot_path,
                 memory, ops, streak, iter_clean, consec_at_start, exhausted, slept,
                 agg_log, dispatches, retval>>

device_vars == <<endpoints, task_map, app_package_cache, installed, next_task,
                 sessions, discovered, run_ref, run_phase, run_task,
                 last_call, vnc_task_map>>

parser_vars == <<raw, keys, parse_result>>

\* The state of the single-function studies.
dispatch_vars == <<dispatcher, action_text, post_outcome, dispatch_result>>
manager_vars == <<tasks_storage, next_uuid, mgr_call>>
agent_vars == <<agent_pc, iter, agent_memory, output_memory, error_flag, agent_action, screenshot_file,
                last_screenshot_file, captures, agent_sent, reflect_call>>
upload_vars == <<apk_dir, apk_files, uploads, uploads_started>>

unit_vars == <<parser_vars, dispatch_vars, manager_vars, agent_vars, upload_vars>>

vars == <<engine_vars, device_vars, unit_vars>>

----------------------------------------------------------------------------
(* Oracle response text, as a sequence of tokens, and the strict-then-      *)
(* fallback parser _strict_json_parse.                                      *)

Tok(t) == [t |-> t, k |-> "", v |-> ""]
Pair(k, v) == [t |-> "pair", k |-> k, v |-> v]

LB == Tok("{")
RB == Tok("}")
LSQ == Tok("[")
RSQ == Tok("]")
NUM == Tok("num")      \* a JSON scalar that is no container: 5, null, true
STR == Tok("str")      \* a JSON string that contains no key name
KeyStr(k) == [t |-> "str", k |-> k, v |-> ""]   \* the JSON string "<k>"
PROSE == Tok("prose")  \* words that are not JSON

\* Index just after the JSON object that starts at s[i], or 0 when none does.
RECURSIVE ObjectEnd(_, _)
ObjectEnd(s, i) ==
    IF i > Len(s) THEN 0
    ELSE IF s[i].t = "}" THEN i + 1
    ELSE IF s[i].t = "pair" THEN ObjectEnd(s, i + 1)
    ELSE 0

\* Index just after the JSON value that starts at s[i], or 0 when none does.
RECURSIVE ValueEnd(_, _)
RECURSIVE ArrayEnd(_, _)
ValueEnd(s, i) ==
    IF i > Len(s) THEN 0
    ELSE IF s[i].t \in {"num", "str"} THEN i + 1
    ELSE IF s[i].t = "{" THEN ObjectEnd(s, i + 1)
    ELSE IF s[i].t = "[" THEN ArrayEnd(s, i + 1)
    ELSE 0
ArrayEnd(s, i) ==
    IF i > Len(s) THEN 0
    ELSE IF s[i].t = "]" THEN i + 1
    ELSE LET j == ValueEnd(s, i) IN IF j = 0 THEN 0 ELSE ArrayEnd(s, j)

\* json.loads: the whole text must be one JSON value.
JsonValid(s) == Len(s) > 0 /\ ValueEnd(s, 1) = Len(s) + 1

JsonKind(s) ==
    IF s[1].t = "{" THEN "dict"
    ELSE IF s[1].t = "[" THEN "list"
    ELSE s[1].t

\* The dict json.loads builds from an object (a later duplicate key wins).
DictKeys(s) == {s[i].k : i \in {j \in 1..Len(s) : s[j].t = "pair"}}
DictOf(s) ==
    [k \in DictKeys(s) |->
        LET last == CHOOSE i \in 1..Len(s) :
                        /\ s[i].t = "pair" /\ s[i].k = k
                        /\ \A j \in (i + 1)..Len(s) : ~(s[j].t = "pair" /\ s[j].k = k)
        IN s[last].v]

ParseOk(d) == [status |-> "completed", result |-> d, message |-> ""]
ParseErr(m) == [status |-> "error", result |-> <<>>, message |-> m]
Raised(e) == [status |-> "raise", result |-> <<>>, message |-> e]

\* The key names among the top-level elements of the list that starts at s[1].
RECURSIVE ListKeys(_, _)
ListKeys(s, i) ==
    IF i > Len(s) \/ s[i].t = "]" \/ ValueEnd(s, i) = 0 THEN {}
    ELSE (IF s[i].t = "str" /\ s[i].k # "" THEN {s[i].k} ELSE {})
         \cup ListKeys(s, ValueEnd(s, i))

\* The k for which `k in parsed` is true: keys of a dict, elements of a list,
\* substrings of a string.
KeysIn(s) ==
    IF JsonKind(s) = "dict" THEN DictKeys(s)
    ELSE IF JsonKind(s) = "list" THEN ListKeys(s, 2)
    ELSE IF s[1].k # "" THEN {s[1].k}
    ELSE {}

\* The value json.loads returns: a dict as a function, anything else as its text.
Parsed(s) == IF JsonKind(s) = "dict" THEN DictOf(s) ELSE s

\* `any(k not in parsed for k in required_keys)` and what follows it.
CheckKeys(s, required_keys) ==
    IF required_keys = {} THEN ParseOk(Parsed(s))
    ELSE IF JsonKind(s) = "num"
        THEN Raised("TypeError")   \* `k in 5`: argument of type 'int' is not iterable
    ELSE IF required_keys \subseteq KeysIn(s)
        THEN ParseOk(Parsed(s))
        ELSE ParseErr("LLM JSON missing keys")

\* re.search(r'\{.*\}', raw, re.DOTALL): leftmost "{" up to the last "}".
BraceOpens(s) == {i \in 1..Len(s) : s[i].t = "{"}
BraceCloses(s) == {i \in 1..Len(s) : s[i].t = "}"}
Min(S) == CHOOSE x \in S : \A y \in S : x <= y
Max(S) == CHOOSE x \in S : \A y \in S : x >= y
RegexMatches(s) ==
    /\ BraceOpens(s) # {}
    /\ \E j \in BraceCloses(s) : j > Min(BraceOpens(s))
RegexBlock(s) == SubSeq(s, Min(BraceOpens(s)), Max(BraceCloses(s)))

_strict_json_parse(raw_response, required_keys) ==
    IF JsonValid(raw_response)
    THEN CheckKeys(raw_response, required_keys)
    ELSE IF RegexMatches(raw_response)
        THEN LET block == RegexBlock(raw_response) IN
             IF JsonValid(block)
             THEN CheckKeys(block, required_keys)
             ELSE ParseErr("LLM response not valid JSON (fallback)")
        ELSE ParseErr("LLM response not valid JSON")

----------------------------------------------------------------------------
(* The Exploration Engine: Step Records                                     *)

CheckId(name, n) == [name |-> name, n |-> n]

\* A Step Record.  status is "absent" where the code builds the dict without one.
Record(check_id, agent, risk, conf, expl, status) ==
    [check_id |-> check_id, analysis_agent |-> agent, weight |-> "0.0",
     risk_level |-> risk, confidence |-> conf, explanation |-> expl,
     status |-> status]

\* result is the dict _retry_call returned; app_worker_full_2 leaves status out.
_make_check_entry(check_id, agent, result, explanation) ==
    Record(check_id, agent, "low",
           IF result.status = "completed" THEN "0.8" ELSE "0.5",
           <<explanation, IF result.status = "completed" THEN "success." ELSE result.message>>,
           IF variant = "full" THEN result.status ELSE "absent")

_make_screenshot_check(check_id, result, explanation) ==
    IF result.status = "error"
    THEN Record(check_id, "emulator_screenshot", "low", "0.5",
                <<explanation, result.message>>, "absent")
    ELSE Record(check_id, "emulator_screenshot", "low", "0.7",
                <<explanation, "Screenshot taken.">>, "absent")

_make_vision_check(check_id, result, explanation) ==
    IF result.status = "error"
    THEN Record(check_id, "vision_llm", "low", "0.5",
                <<explanation, "Vision LLM error">>, "absent")
    ELSE Record(check_id, "vision_llm", result.result["risk_level"],
                result.result["confidence"],
                <<explanation, result.result["reason"]>>, "absent")

_action_error(msg) ==
    Record(CheckId("action_error", 0), "emulator_action", "low", "0.5",
           <<"Action failed", msg>>, "error")

ActionDone(action_str_lower, action_str) ==
    Record(CheckId(action_str_lower, 0), "emulator_action", "low", "0.8",
           <<"Action", action_str>>, "completed")

\* What the run hands back: a verdict, or an error dict, or an escaped exception.
Verdict(risk, conf, reasons) ==
    [status |-> "completed", risk_level |-> risk, confidence |-> conf,
     reasons |-> reasons, message |-> ""]
ErrorDict(msg) ==
    [status |-> "error", risk_level |-> "", confidence |-> "", reasons |-> <<>>,
     message |-> msg]
Escaped(exc) ==
    [status |-> "exception", risk_level |-> "", confidence |-> "", reasons |-> <<>>,
     message |-> exc]
NotReturned ==
    [status |-> "running", risk_level |-> "", confidence |-> "", reasons |-> <<>>,
     message |-> ""]

_fail_no_analysis(sd) == Verdict("high", "0.5", sd)

\* Mutant: the budget test joins its two thresholds with `and`.
BudgetExceeded_and(t, c) == t > max_total_errors /\ c > max_consecutive_errors

\* The error-budget test of the exploration loop.
BudgetExceeded(t, c) == t > max_total_errors \/ c > max_consecutive_errors

\* Mutant: a successful sub-step leaves consecutive_errors as it was.
ResetOnSuccess_keep(c) == c

\* Mutant: a failure forgets to count into total_errors.
IncTotal_forgotten(t) == t

\* consecutive_errors after a successful sub-step, and the counters after a failure.
ResetOnSuccess(c) == 0
IncTotal(t) == t + 1
IncConsecutive(c) == c + 1

----------------------------------------------------------------------------
(* The Exploration Engine: oracle replies and action texts                  *)

\* An oracle's HTTP reply: ok is FALSE for a network error, a non-200 code or a
\* status other than "success"; text is llm_data["response"].
Reply(text) == [ok |-> TRUE, text |-> text]
NetErr == [ok |-> FALSE, text |-> <<>>]

VisionObj(risk, conf, reason, action) ==
    <<LB, Pair("risk_level", risk), Pair("confidence", conf),
      Pair("reason", reason), Pair("action", action), RB>>

ReflectObj(risk, conf, insight) ==
    <<LB, Pair("status", "completed"), Pair("risk_level", risk),
      Pair("confidence", conf), Pair("explanation", "as expected"),
      Pair("insight", insight), RB>>

AggObj(risk, conf, reasons) ==
    <<LB, Pair("risk_level", risk), Pair("confidence", conf),
      Pair("reasons", reasons), RB>>

_call_vision_llm_for_json(reply, required_keys) ==
    IF reply.ok THEN _strict_json_parse(reply.text, required_keys)
    ELSE ParseErr("Vision LLM not success")

_call_llm_for_json(reply, required_keys) ==
    IF reply.ok THEN _strict_json_parse(reply.text, required_keys)
    ELSE ParseErr("LLM aggregator not success")

\* The text of an action, cut at its parentheses and commas: "Tap(1,2)" is
\* name "Tap" with one group <<"1","2">>, "Back" has no group.
ActionText(a) ==
    CASE a = "None"              -> [name |-> "None",  groups |-> <<>>]
      [] a = "Back"              -> [name |-> "Back",  groups |-> <<>>]
      [] a = "Home"              -> [name |-> "Home",  groups |-> <<>>]
      [] a = "Tap(1,2)"          -> [name |-> "Tap",   groups |-> << <<"1", "2">> >>]
      [] a = "Tap(x,y)"          -> [name |-> "Tap",   groups |-> << <<"x", "y">> >>]
      [] a = "Swipe(1,2,3,4)"    -> [name |-> "Swipe", groups |-> << <<"1", "2", "3", "4">> >>]
      [] a = "Swipe(1,2),(3,4)"  -> [name |-> "Swipe", groups |-> << <<"1", "2">>, <<"3", "4">> >>]
      [] a = "Type(hi)"          -> [name |-> "Type",  groups |-> << <<"hi">> >>]
      [] a = "back"              -> [name |-> "back",  groups |-> <<>>]
      [] a = "Scroll"            -> [name |-> "Scroll", groups |-> <<>>]
      [] a = "Tap(3,4)"          -> [name |-> "Tap",   groups |-> << <<"3", "4">> >>]
      [] a = "Tap(1)"            -> [name |-> "Tap",   groups |-> << <<"1">> >>]
      [] a = "tap(1,2)"          -> [name |-> "tap",   groups |-> << <<"1", "2">> >>]
      [] a = "Swipe(3,4,1,2)"    -> [name |-> "Swipe", groups |-> << <<"3", "4", "1", "2">> >>]
      [] a = "swipe(1,2),(3,4)"  -> [name |-> "swipe", groups |-> << <<"1", "2">>, <<"3", "4">> >>]
      [] a = "Type(ok)"          -> [name |-> "Type",  groups |-> << <<"ok">> >>]

Lower(name) ==
    CASE name = "None" -> "none" [] name = "Back" -> "back" [] name = "Home" -> "home"
      [] name = "Tap" -> "tap" [] name = "Swipe" -> "swipe" [] name = "Type" -> "type"
      [] name = "back" -> "back" [] name = "tap" -> "tap" [] name = "swipe" -> "swipe"
      [] name = "Scroll" -> "scroll"

\* str.isdigit / int(): the argument is a decimal literal.
IsInt(arg) == arg \in {"1", "2", "3", "4"}

\* action_text.lower() != "none"
IsNoneAction(a) == Lower(ActionText(a).name) = "none" /\ ActionText(a).groups = <<>>

ActionResult(rec) == [exc |-> "", rec |-> rec]
ActionRaise(e) == [exc |-> e, rec |-> _action_error(e)]

\* The HTTP half of _perform_action_once: http is the endpoint's outcome.
\*   "ok"          200 {status: ok}, the adb command ran once
\*   "ok_retried"  200 {status: ok}, after _run_adb_command ran the command,
\*                 timed out waiting for it and ran it again
\*   "fail"        an answer other than 200 {status: ok}, nothing ran
\*   "lost"        the command ran, the answer did not arrive within the
\*                 timeout of requests.post (requests.RequestException)
ActionPost(a, http) ==
    IF http \in {"ok", "ok_retried"}
    THEN ActionResult(ActionDone(Lower(ActionText(a).name), a))
    ELSE IF http = "lost"
    THEN ActionResult(_action_error("Network error action"))
    ELSE ActionResult(_action_error("action not ok"))

_perform_action_once(a, http) ==
    LET t == ActionText(a)
        low == Lower(t.name)
    IN  IF low = "tap" /\ Len(t.groups) > 0
        THEN LET coords == t.groups[Len(t.groups)] IN
             IF Len(coords) # 2 THEN ActionResult(_action_error("Tap parse fail"))
             ELSE IF ~(IsInt(coords[1]) /\ IsInt(coords[2])) THEN ActionRaise("ValueError")
             ELSE ActionPost(a, http)
        ELSE IF low = "swipe" /\ Len(t.groups) > 0
        THEN IF /\ t.name = "Swipe" /\ Len(t.groups) = 2
                /\ \A g \in 1..2 : Len(t.groups[g]) = 2 /\ \A i \in 1..2 : IsInt(t.groups[g][i])
             THEN ActionPost(a, http)
             ELSE ActionResult(_action_error("Swipe parse fail"))
        ELSE IF low \in {"back", "home"} /\ t.groups = <<>> THEN ActionPost(a, http)
        ELSE IF low = "none" /\ t.groups = <<>>
        THEN ActionResult(Record(CheckId("action_none", 0), "emulator_action", "low", "0.8",
                                 <<"No action chosen", "success.">>, "completed"))
        ELSE ActionResult(_action_error("Unknown action"))

\* _perform_action_once of app_worker/controller.py: the swipe pattern ignores
\* case and there is a branch for Type(text).
controller_perform_action_once(a, http) ==
    LET t == ActionText(a)
        low == Lower(t.name)
    IN  IF low = "tap" /\ Len(t.groups) > 0
        THEN LET coords == t.groups[Len(t.groups)] IN
             IF Len(coords) # 2 THEN ActionResult(_action_error("Tap parse fail"))
             ELSE IF ~(IsInt(coords[1]) /\ IsInt(coords[2])) THEN ActionRaise("ValueError")
             ELSE ActionPost(a, http)
        ELSE IF low = "swipe" /\ Len(t.groups) > 0
        THEN IF /\ Len(t.groups) = 2
                /\ \A g \in 1..2 : Len(t.groups[g]) = 2 /\ \A i \in 1..2 : IsInt(t.groups[g][i])
             THEN ActionPost(a, http)
             ELSE ActionResult(_action_error("Swipe parse fail"))
        ELSE IF low \in {"back", "home"} /\ t.groups = <<>> THEN ActionPost(a, http)
        ELSE IF low = "type" /\ Len(t.groups) > 0 THEN ActionPost(a, http)
        ELSE IF low = "none" /\ t.groups = <<>>
        THEN ActionResult(Record(CheckId("action_none", 0), "emulator_action", "low", "0.8",
                                 <<"No action chosen", "success.">>, "completed"))
        ELSE ActionResult(_action_error("Unknown action"))

\* int(): the number a decimal literal stands for.
IntOf(arg) == CASE arg = "1" -> 1 [] arg = "2" -> 2 [] arg = "3" -> 3 [] arg = "4" -> 4

\* The endpoint and the JSON body of the requests.post of an attempt that
\* gets that far.
NoRequest == [endpoint |-> "", json |-> <<>>]
PostOf(a) ==
    LET t == ActionText(a)
        low == Lower(t.name)
    IN  IF low = "tap"
        THEN LET coords == t.groups[Len(t.groups)] IN
             [endpoint |-> "/emulator/tap", json |-> <<IntOf(coords[1]), IntOf(coords[2])>>]
        ELSE IF low = "swipe"
        THEN [endpoint |-> "/emulator/swipe",
              json |-> <<IntOf(t.groups[1][1]), IntOf(t.groups[1][2]),
                         IntOf(t.groups[2][1]), IntOf(t.groups[2][2])>>]
        ELSE IF low = "type"
        THEN [endpoint |-> "/emulator/type", json |-> t.groups[Len(t.groups)]]
        ELSE IF low = "back" THEN [endpoint |-> "/emulator/back", json |-> <<>>]
        ELSE [endpoint |-> "/emulator/home", json |-> <<>>]

\* One attempt by either implementation, and the request it sends.
PerformOnce(impl, a, http) ==
    IF impl = "app_worker_full" THEN _perform_action_once(a, http)
    ELSE controller_perform_action_once(a, http)
RequestOf(impl, a) ==
    IF PerformOnce(impl, a, "ok") # PerformOnce(impl, a, "fail") THEN PostOf(a)
    ELSE NoRequest

\* The attempt gets as far as requests.post.
Dispatched(a) == _perform_action_once(a, "ok") # _perform_action_once(a, "fail")

\* How often the device runs the input command during one attempt.
DeviceExecutions(a, http) ==
    IF ~Dispatched(a) THEN 0
    ELSE CASE http = "ok" -> 1
           [] http = "ok_retried" -> 2
           [] http = "lost" -> 1
           [] http = "fail" -> 0

----------------------------------------------------------------------------
(* The Exploration Engine: AppWorker.process as a state machine             *)

STEP0 == "Step0_Emulator_Preparation"
STEP1 == "Step1_App_Identification"
STEP2 == "Step2_App_Exploration"

SCREENSHOT_PATH == "./app_worker_screenshot.jpg"

\* Mutant: the new record is put in front of the stage's list.
AppendTo_front(sd, stage, rec) == [sd EXCEPT ![stage] = <<rec>> \o @]

AppendTo(sd, stage, rec) == [sd EXCEPT ![stage] = Append(@, rec)]

Return(v) == pc' = "done" /\ retval' = v
Raise(e) == pc' = "raised" /\ retval' = Escaped(e)

\* Where the run goes after a preparation sub-step reported an error.
AfterPrepError(step, sd) == Return(_fail_no_analysis(sd))

\* Mutant: the sleep follows every failed attempt, the last one too.
RetryWait_always(i, max_retries, wait) == wait

\* `if i<max_retries-1: time.sleep(wait)` after a failed attempt i.
RetryWait(i, max_retries, wait) == IF i < max_retries - 1 THEN wait ELSE 0

\* One attempt of _retry_call for a preparation sub-step.
PrepAttempt(step, stage, max_retries, wait, check, agent, expl, next) ==
    /\ ops' = ops \cup {step}
    /\ \E o \in allowed.prep :
         /\ slept' = IF o = "ok" THEN 0 ELSE RetryWait(attempt, max_retries, wait)
         /\ IF o = "ok"
            THEN /\ steps_data' = AppendTo(steps_data, stage,
                       _make_check_entry(check, agent, [status |-> "completed", message |-> ""], expl))
                 /\ pc' = next
                 /\ attempt' = 0
                 /\ UNCHANGED <<retval, exhausted>>
            ELSE IF attempt < max_retries - 1
            THEN /\ attempt' = attempt + 1
                 /\ UNCHANGED <<steps_data, pc, retval, exhausted>>
            ELSE IF variant = "full_2" /\ step = "run_app"
            THEN \* logger.info(... run_app_result['data'] ...) before the status test
                 /\ Raise("KeyError")
                 /\ exhausted' = step
                 /\ UNCHANGED <<steps_data, attempt>>
            ELSE LET sd == AppendTo(steps_data, stage,
                       _make_check_entry(check, agent,
                           [status |-> "error", message |-> "Max retries exceeded"], expl))
                 IN /\ steps_data' = sd
                    /\ AfterPrepError(step, sd)
                    /\ exhausted' = step
                    /\ UNCHANGED attempt
    /\ dispatches' = <<>>
    /\ UNCHANGED <<config_vars, agg_log, elapsed, checks_count, total_errors,
                   consecutive_errors, vr, prev_screenshot_path, memory, streak,
                   iter_clean, consec_at_start>>
    /\ UNCHANGED <<device_vars, unit_vars>>

InitDevice ==
    /\ pc = "init_device"
    /\ PrepAttempt("init_device", STEP0, 3, 30, CheckId("check_0_init_device", 0),
                   "emulator_device_init", "Initialize emulator device",
                   IF upload_needed THEN "upload_app" ELSE "install_app")

UploadApp ==
    /\ pc = "upload_app"
    /\ PrepAttempt("upload_app", STEP0, 3, 30, CheckId("check_0_upload_app", 0),
                   "emulator_upload_app", "Upload app apk", "install_app")

InstallApp ==
    /\ pc = "install_app"
    /\ PrepAttempt("install_app", STEP0, 3, 30, CheckId("check_0_install_app", 0),
                   "emulator_install_app", "Install the app", "run_app")

RunApp ==
    /\ pc = "run_app"
    /\ PrepAttempt("run_app", STEP1, 2, 60, CheckId("check_1_run_app", 0),
                   "emulator_run_app", "Run the app", "ident_shot")

ShotResult(o) ==
    IF o = "ok" THEN [status |-> "completed", message |-> ""]
    ELSE [status |-> "error", message |-> "screenshot not ok"]

\* Initial screenshot after run_app.
IdentShot ==
    /\ pc = "ident_shot"
    /\ ops' = ops \cup {"screenshot"}
    /\ \E o \in allowed.shot :
         LET sd == AppendTo(steps_data, STEP1,
                     _make_screenshot_check(CheckId("check_1_initial_screenshot", 0),
                                            ShotResult(o), "Initial screenshot after run_app"))
         IN /\ steps_data' = sd
            /\ IF o = "ok"
               THEN pc' = "ident_vision" /\ UNCHANGED retval
               ELSE Return(_fail_no_analysis(sd))
    /\ attempt' = 0
    /\ dispatches' = <<>>
    /\ UNCHANGED <<config_vars, exhausted, slept, agg_log, elapsed, checks_count, total_errors, consecutive_errors,
                   vr, prev_screenshot_path, memory, streak, iter_clean, consec_at_start>>
    /\ UNCHANGED <<device_vars, unit_vars>>

IDENT_KEYS == {"risk_level", "confidence", "reason"}
VISION_KEYS == {"risk_level", "confidence", "reason", "action"}
REFLECT_KEYS == {"status", "risk_level", "confidence", "explanation"}
AGG_KEYS == {"risk_level", "confidence", "reasons"}

VISION_ATTEMPTS == 3
ACTION_ATTEMPTS == 2
AGG_ATTEMPTS == 3

\* One attempt of _attempt_vision_llm_for_json for the identification call;
\* app_worker_full_2 counts a failed identification as an error.
IdentVision ==
    /\ pc = "ident_vision"
    /\ ops' = ops \cup {"vision"}
    /\ \E reply \in allowed.vision :
         LET res == _call_vision_llm_for_json(reply, IDENT_KEYS)
             failed == [status |-> "error", result |-> <<>>,
                        message |-> "Vision LLM 3 attempts failed"]
         IN  IF res.status = "raise"
             THEN /\ Raise(res.message)
                  /\ UNCHANGED <<steps_data, attempt, total_errors, consecutive_errors>>
             ELSE IF res.status = "error" /\ attempt < VISION_ATTEMPTS - 1
             THEN /\ attempt' = attempt + 1
                  /\ UNCHANGED <<steps_data, pc, retval, total_errors, consecutive_errors>>
             ELSE LET fin == IF res.status = "error" THEN failed ELSE res IN
                  /\ steps_data' = AppendTo(steps_data, STEP1,
                        _make_vision_check(CheckId("check_1_ident_vision", 0), fin,
                                           "Vision LLM app identify"))
                  /\ IF variant = "full_2" /\ fin.status = "error"
                     THEN /\ total_errors' = IncTotal(total_errors)
                          /\ consecutive_errors' = IncConsecutive(consecutive_errors)
                     ELSE UNCHANGED <<total_errors, consecutive_errors>>
                  /\ pc' = "loop_head"
                  /\ attempt' = 0
                  /\ UNCHANGED retval
    /\ dispatches' = <<>>
    /\ UNCHANGED <<config_vars, exhausted, slept, agg_log, elapsed, checks_count, vr, prev_screenshot_path, memory,
                   streak, iter_clean, consec_at_start>>
    /\ UNCHANGED <<device_vars, unit_vars>>

\* Mutant: the loop test lets an iteration start at the very end of the run.
LoopContinues_inclusive(time_passed, duration) == time_passed <= duration

\* `time.time() - start_time < run_duration*60`, in minutes.
LoopContinues(time_passed, duration) == time_passed < duration

\* `while time.time() - start_time < run_duration*60:` and the sleep that opens
\* an iteration.
LoopHead ==
    /\ pc = "loop_head"
    /\ IF LoopContinues(elapsed, run_duration)
       THEN /\ pc' = "shot"
            /\ elapsed' = elapsed + interval
            /\ checks_count' = checks_count + 1
            /\ iter_clean' = TRUE
            /\ consec_at_start' = consecutive_errors
       ELSE /\ pc' = "aggregate"
            /\ UNCHANGED <<elapsed, checks_count, iter_clean, consec_at_start>>
    /\ attempt' = 0
    /\ dispatches' = <<>>
    /\ UNCHANGED <<config_vars, exhausted, slept, agg_log, steps_data, total_errors, consecutive_errors, vr,
                   prev_screenshot_path, memory, ops, streak, retval>>
    /\ UNCHANGED <<device_vars, unit_vars>>

\* The counters and the next position after a failed sub-step of the loop:
\* both counters go up, then the budget test breaks the loop or not.
FailStep(continue_at) ==
    /\ total_errors' = IncTotal(total_errors)
    /\ consecutive_errors' = IncConsecutive(consecutive_errors)
    /\ pc' = IF BudgetExceeded(IncTotal(total_errors), IncConsecutive(consecutive_errors))
             THEN "aggregate" ELSE continue_at
    /\ iter_clean' = FALSE

\* Exploration screenshot of one iteration.
Shot ==
    /\ pc = "shot"
    /\ ops' = ops \cup {"screenshot"}
    /\ \E o \in allowed.shot :
         /\ steps_data' = AppendTo(steps_data, STEP2,
               _make_screenshot_check(CheckId("check_2_explore_shot", checks_count),
                                      ShotResult(o), "Exploration screenshot"))
         /\ IF o = "ok"
            THEN /\ consecutive_errors' = ResetOnSuccess(consecutive_errors)
                 /\ pc' = "vision"
                 /\ UNCHANGED <<total_errors, iter_clean, streak>>
            ELSE /\ FailStep("loop_head")
                 /\ streak' = 0
    /\ attempt' = 0
    /\ dispatches' = <<>>
    /\ UNCHANGED <<config_vars, exhausted, slept, agg_log, elapsed, checks_count, vr, prev_screenshot_path, memory,
                   consec_at_start, retval>>
    /\ UNCHANGED <<device_vars, unit_vars>>

\* Where the iteration goes once the action (if any) is dealt with.
AfterAction == IF variant = "full" THEN "reflect" ELSE "loop_head"

\* One attempt of _attempt_vision_llm_for_json inside the loop.
Vision ==
    /\ pc = "vision"
    /\ ops' = ops \cup {"vision"}
    /\ \E reply \in allowed.vision :
         LET res == _call_vision_llm_for_json(reply, VISION_KEYS)
             failed == [status |-> "error", result |-> <<>>,
                        message |-> "Vision LLM 3 attempts failed"]
         IN  IF res.status = "raise"
             THEN /\ Raise(res.message)
                  /\ UNCHANGED <<steps_data, attempt, total_errors, consecutive_errors,
                                 vr, iter_clean, streak>>
             ELSE IF res.status = "error" /\ attempt < VISION_ATTEMPTS - 1
             THEN /\ attempt' = attempt + 1
                  /\ UNCHANGED <<steps_data, pc, retval, total_errors, consecutive_errors,
                                 vr, iter_clean, streak>>
             ELSE LET fin == IF res.status = "error" THEN failed ELSE res IN
                  /\ steps_data' = AppendTo(steps_data, STEP2,
                        _make_vision_check(CheckId("check_2_explore_vision", checks_count),
                                           fin, "Exploration vision analysis"))
                  /\ attempt' = 0
                  /\ UNCHANGED retval
                  /\ IF fin.status = "error"
                     THEN /\ FailStep("loop_head")
                          /\ streak' = 0
                          /\ UNCHANGED vr
                     ELSE /\ consecutive_errors' = ResetOnSuccess(consecutive_errors)
                          /\ vr' = fin.result
                          /\ IF IsNoneAction(fin.result["action"])
                             THEN pc' = AfterAction /\ streak' = 0
                             ELSE pc' = "action" /\ UNCHANGED streak
                          /\ UNCHANGED <<total_errors, iter_clean>>
    /\ dispatches' = <<>>
    /\ UNCHANGED <<config_vars, exhausted, slept, agg_log, elapsed, checks_count, prev_screenshot_path, memory,
                   consec_at_start>>
    /\ UNCHANGED <<device_vars, unit_vars>>

\* One attempt of _perform_action_with_retry and, after the last one, the
\* bookkeeping of the loop.
Action ==
    /\ pc = "action"
    /\ ops' = ops \cup {"action"}
    /\ \E http \in allowed.action :
         LET r == _perform_action_once(vr["action"], http) IN
         /\ dispatches' = Append(dispatches,
                [status |-> IF r.exc # "" THEN "raise" ELSE r.rec.status,
                 executed |-> DeviceExecutions(vr["action"], http)])
         /\ IF r.exc # ""
            THEN /\ Raise(r.exc)
                 /\ UNCHANGED <<steps_data, attempt, total_errors, consecutive_errors,
                                iter_clean, streak>>
            ELSE IF r.rec.status # "completed" /\ attempt < ACTION_ATTEMPTS - 1
            THEN /\ attempt' = attempt + 1
                 /\ UNCHANGED <<steps_data, pc, retval, total_errors, consecutive_errors,
                                iter_clean, streak>>
            ELSE /\ steps_data' = AppendTo(steps_data, STEP2, r.rec)
                 /\ attempt' = 0
                 /\ UNCHANGED retval
                 /\ IF r.rec.status = "error"
                    THEN /\ FailStep(AfterAction)
                         /\ streak' = streak + 1
                    ELSE /\ consecutive_errors' = ResetOnSuccess(consecutive_errors)
                         /\ pc' = AfterAction
                         /\ streak' = 0
                         /\ UNCHANGED <<total_errors, iter_clean>>
    /\ UNCHANGED <<config_vars, exhausted, slept, agg_log, elapsed, checks_count, vr,
                   prev_screenshot_path, memory, consec_at_start>>
    /\ UNCHANGED <<device_vars, unit_vars>>

\* "No suspicious" in vr["reason"]
HasNoSuspicious(reason) == reason \in {"No suspicious UI"}

\* `insight not in self.memory`: memory is the list of its "\n"-ended lines.
MemoryContains(mem, insight) == \E i \in 1..Len(mem) : mem[i] = insight

_update_memory(mem, insight) ==
    IF ~memory_enabled THEN mem
    ELSE IF insight[2] # "" /\ ~MemoryContains(mem, insight)
    THEN Append(mem, insight)
    ELSE mem

\* The dict _reflect_on_change returns, as appended to exploration_steps: it
\* carries no check_id, analysis_agent or weight.
ReflectRecord(res) ==
    IF res.status = "completed"
    THEN [check_id |-> CheckId("", 0), analysis_agent |-> "", weight |-> "",
          risk_level |-> res.result["risk_level"], confidence |-> res.result["confidence"],
          explanation |-> <<res.result["explanation"], "">>, status |-> "completed"]
    ELSE [check_id |-> CheckId("", 0), analysis_agent |-> "", weight |-> "",
          risk_level |-> "", confidence |-> "",
          explanation |-> <<"", res.message>>, status |-> "error"]

ReflectInsight(res) ==
    IF "insight" \in DOMAIN res.result THEN res.result["insight"] ELSE "No new insight"

\* The memory line the vision reason adds at the end of an iteration.
VisionMemory(mem) ==
    IF memory_enabled /\ ~HasNoSuspicious(vr["reason"])
    THEN _update_memory(mem, <<"Additional insight from vision: ", vr["reason"]>>)
    ELSE mem

\* The rest of an iteration of app_worker_full: the optional reflection call,
\* the memory update and the closing budget test.
ReflectAndMemory ==
    /\ pc = "reflect"
    /\ IF reflection_enabled /\ prev_screenshot_path # "None" /\ ~IsNoneAction(vr["action"])
       THEN /\ ops' = ops \cup {"reflect"}
            /\ \E reply \in allowed.reflect :
                 LET res == _call_llm_for_json(reply, REFLECT_KEYS) IN
                 IF res.status = "raise"
                 THEN /\ Raise(res.message)
                      /\ UNCHANGED <<steps_data, total_errors, consecutive_errors, iter_clean,
                                     prev_screenshot_path, memory>>
                 ELSE /\ steps_data' = AppendTo(steps_data, STEP2, ReflectRecord(res))
                      /\ UNCHANGED retval
                      /\ IF res.status = "error"
                         THEN /\ FailStep("loop_head")
                              /\ IF BudgetExceeded(IncTotal(total_errors),
                                                   IncConsecutive(consecutive_errors))
                                 THEN UNCHANGED <<prev_screenshot_path, memory>>
                                 ELSE /\ prev_screenshot_path' = SCREENSHOT_PATH
                                      /\ memory' = VisionMemory(memory)
                         ELSE /\ consecutive_errors' = ResetOnSuccess(consecutive_errors)
                              /\ prev_screenshot_path' = SCREENSHOT_PATH
                              /\ memory' = VisionMemory(
                                    _update_memory(memory, <<"", ReflectInsight(res)>>))
                              /\ pc' = IF BudgetExceeded(total_errors,
                                                         ResetOnSuccess(consecutive_errors))
                                       THEN "aggregate" ELSE "loop_head"
                              /\ UNCHANGED <<total_errors, iter_clean>>
       ELSE /\ prev_screenshot_path' =
                 IF reflection_enabled THEN SCREENSHOT_PATH ELSE prev_screenshot_path
            /\ memory' = VisionMemory(memory)
            /\ pc' = IF BudgetExceeded(total_errors, consecutive_errors)
                     THEN "aggregate" ELSE "loop_head"
            /\ UNCHANGED <<ops, steps_data, retval, total_errors, consecutive_errors,
                           iter_clean>>
    /\ attempt' = 0
    /\ dispatches' = <<>>
    /\ UNCHANGED <<config_vars, exhausted, slept, agg_log, elapsed, checks_count, vr, streak, consec_at_start>>
    /\ UNCHANGED <<device_vars, unit_vars>>

\* The reasons the Aggregation Oracle wrote, given what it was handed.
AggReasons(v, sd) ==
    IF v = "echo" THEN sd
    ELSE [stage \in DOMAIN sd |-> <<>>]

\* One attempt of _final_aggregate_with_retry and what process returns after it.
Aggregate ==
    /\ pc = "aggregate"
    /\ ops' = ops \cup {"aggregate"}
    /\ \E reply \in allowed.agg :
         LET res == _call_llm_for_json(reply, AGG_KEYS) IN
         /\ agg_log' = Append(agg_log, res.status)
         /\ IF res.status = "raise"
            THEN Raise(res.message) /\ UNCHANGED attempt
            ELSE IF res.status = "completed"
            THEN /\ Return(Verdict(res.result["risk_level"], res.result["confidence"],
                                   AggReasons(res.result["reasons"], steps_data)))
                 /\ UNCHANGED attempt
            ELSE IF attempt < AGG_ATTEMPTS - 1
            THEN attempt' = attempt + 1 /\ UNCHANGED <<pc, retval>>
            ELSE /\ IF variant = "full"
                    THEN Return(Verdict("high", "0.5", steps_data))
                    ELSE Return(ErrorDict("Aggregator failed after 3 tries"))
                 /\ UNCHANGED attempt
    /\ dispatches' = <<>>
    /\ UNCHANGED <<config_vars, exhausted, slept, steps_data, elapsed, checks_count, total_errors,
                   consecutive_errors, vr, prev_screenshot_path, memory, streak,
                   iter_clean, consec_at_start>>
    /\ UNCHANGED <<device_vars, unit_vars>>

EngineNext ==
    \/ InitDevice
    \/ UploadApp
    \/ InstallApp
    \/ RunApp
    \/ IdentShot
    \/ IdentVision
    \/ LoopHead
    \/ Shot
    \/ Vision
    \/ Action
    \/ ReflectAndMemory
    \/ Aggregate

----------------------------------------------------------------------------
(* Device Controller: the EmulatorEnv singleton behind the HTTP handlers    *)

Runs == {"A", "B"}
AppRefs == {"a.apk", "b.apk"}

\* An endpoint is scheme, host and port; instances.json lists one or two.
Endpoint(host) == <<"http:", host, "5555">>
Endpoints == {Endpoint("emulator1"), Endpoint("emulator2")}
EndpointPools == {{Endpoint("emulator1")}, Endpoints}

\* endpoint.split("//")[-1]
HostPort(endpoint) == Tail(endpoint)
HostPorts == {HostPort(e) : e \in Endpoints}

\* host_port.split(":")[0]
HostOf(host_port) == host_port[1]

EmptyMap == [x \in {} |-> x]
Put(map, k, v) == [x \in DOMAIN map \cup {k} |-> IF x = k THEN v ELSE map[x]]

\* A listing line is a sequence of pieces; MARKER is the substring base.apk=.
MARKER == "base.apk="
SPACE == " "

RECURSIVE LStrip(_)
LStrip(s) == IF s # <<>> /\ Head(s) = SPACE THEN LStrip(Tail(s)) ELSE s

RECURSIVE RStrip(_)
RStrip(s) ==
    IF s # <<>> /\ s[Len(s)] = SPACE THEN RStrip(SubSeq(s, 1, Len(s) - 1)) ELSE s

Strip(s) == RStrip(LStrip(s))

\* str.find: the first position of the piece, 0 standing for Python's -1.
Find(s, piece) ==
    IF \E i \in 1..Len(s) : s[i] = piece
    THEN Min({i \in 1..Len(s) : s[i] = piece})
    ELSE 0

Detected(pkg_name) == [ok |-> TRUE, pkg |-> pkg_name, error |-> ""]
DetectFailed(msg) == [ok |-> FALSE, pkg |-> <<>>, error |-> msg]

\* Lines 121-138: the package name of one new listing line.
ParseNewLine(line) ==
    LET new_line == Strip(line)
        idx == Find(new_line, MARKER)
    IN IF idx = 0
       THEN DetectFailed("base.apk= not found")
       ELSE LET pkg_name == Strip(SubSeq(new_line, idx + 1, Len(new_line)))
            IN IF pkg_name = <<>>
               THEN DetectFailed("Package name is empty")
               ELSE Detected(pkg_name)

\* The outcomes _detect_new_package can have: new_lines.pop() takes an
\* arbitrary element of the set of new lines.
_detect_new_package(before_list, after_list) ==
    LET new_lines == after_list \ before_list
    IN IF new_lines = {}
       THEN {DetectFailed("No new packages found")}
       ELSE {ParseNewLine(new_line) : new_line \in new_lines}

PkgOf(app_ref) == IF app_ref = "a.apk" THEN "com.example.a" ELSE "com.example.b"

\* Lines a device may list anew once `adb install` of app_ref reported Success.
GoodLine(app_ref) == <<"package:/data/app/", MARKER, PkgOf(app_ref), SPACE>>
CompanionLine == <<"package:/data/app/", MARKER, "com.example.companion">>
UnmarkedLine == <<"package:/data/app/", "split.apk=", "com.example.split">>
SystemLine == <<"package:/system/app/", MARKER, "com.android.settings">>

CandidateLines(app_ref) ==
    {GoodLine(app_ref), CompanionLine, UnmarkedLine}

MaxNewLines == 2
MaxSessions == 2

NewLineSets(app_ref) ==
    {S \in SUBSET CandidateLines(app_ref) : Cardinality(S) <= MaxNewLines}

BaseListing == {SystemLine}

\* A listing line of the device names the package.
OnDevice(host_port, pkg_name) ==
    \E line \in installed[host_port] : ParseNewLine(line) = Detected(pkg_name)

Session(host_port) == [host_port |-> host_port, session |-> sessions]

NoCall ==
    [op |-> "none", run |-> "", host_port |-> <<>>, http |-> 0,
     error |-> "", pkg |-> <<>>, listed |-> FALSE, new_lines |-> 0,
     cache_hit |-> FALSE, prior |-> {}, task |-> 0,
     primary |-> "", fallback |-> ""]

CallBy(op, r) == [NoCall EXCEPT !.op = op, !.run = r]
Failed(call, http, error) == [call EXCEPT !.http = http, !.error = error]

\* POST /emulator/init_device
init_device(r) ==
    /\ run_phase[r] = "new"
    /\ sessions < MaxSessions
    /\ app_package_cache' = EmptyMap
    /\ sessions' = sessions + 1
    /\ discovered' = {}
    /\ \E outcome \in {"ok", "provision_failed", "no_endpoints"} :
         \/ /\ outcome = "provision_failed"
            /\ last_call' = Failed(CallBy("init_device", r), 500, "ProvisionError")
            /\ UNCHANGED <<endpoints, installed, run_phase>>
         \/ /\ outcome = "no_endpoints"
            /\ endpoints' = {}
            /\ last_call' = Failed(CallBy("init_device", r), 500, "ValueError")
            /\ UNCHANGED <<installed, run_phase>>
         \/ /\ outcome = "ok"
            /\ endpoints' \in EndpointPools
            /\ UNCHANGED installed
            /\ \E endpoint \in endpoints' :
                 last_call' = [CallBy("init_device", r) EXCEPT
                                 !.http = 200, !.host_port = HostPort(endpoint)]
            /\ run_phase' = [run_phase EXCEPT ![r] = "inited"]
    /\ UNCHANGED <<task_map, next_task, run_ref, run_task>>
    /\ UNCHANGED <<engine_vars, unit_vars, vnc_task_map>>

\* POST /emulator/install_app, for an app_ref whose file was uploaded.
install_app(r) ==
    LET app_ref == run_ref[r]
        call == CallBy("install_app", r)
    IN
    /\ run_phase[r] \in {"inited", "installed"}
    /\ IF endpoints = {}
       THEN /\ last_call' = Failed(call, 500, "EmulatorConnectionError")
            /\ UNCHANGED <<app_package_cache, installed, discovered, run_phase>>
       ELSE \E endpoint \in endpoints :
            LET host_port == HostPort(endpoint)
                here == [call EXCEPT
                           !.host_port = host_port,
                           !.prior = {d.pkg : d \in
                                        {x \in discovered :
                                           /\ x.session = Session(host_port)
                                           /\ x.app_ref = app_ref}}]
                before_list == installed[host_port]
            IN
            IF app_ref \in DOMAIN app_package_cache
            THEN /\ last_call' = [here EXCEPT !.http = 200, !.cache_hit = TRUE,
                                              !.pkg = app_package_cache[app_ref]]
                 /\ run_phase' = [run_phase EXCEPT ![r] = "installed"]
                 /\ UNCHANGED <<app_package_cache, installed, discovered>>
            ELSE \E adb \in {"list_failed", "install_failed", "Success"} :
                 \/ /\ adb = "list_failed"
                    /\ last_call' = Failed(here, 500, "CalledProcessError")
                    /\ UNCHANGED <<app_package_cache, installed, discovered,
                                   run_phase>>
                 \/ /\ adb = "install_failed"
                    /\ last_call' = Failed(here, 500, "EmulatorInstallError")
                    /\ UNCHANGED <<app_package_cache, installed, discovered,
                                   run_phase>>
                 \/ /\ adb = "Success"
                    /\ \E added \in NewLineSets(app_ref) :
                       LET after_list == before_list \cup added
                           listed == [here EXCEPT !.listed = TRUE,
                                        !.new_lines = Cardinality(after_list \ before_list)]
                       IN
                       /\ installed' = [installed EXCEPT ![host_port] = after_list]
                       /\ \E found \in _detect_new_package(before_list, after_list) :
                            IF found.ok
                            THEN /\ app_package_cache' =
                                      Put(app_package_cache, app_ref, found.pkg)
                                 /\ discovered' = discovered \cup
                                      {[session |-> Session(host_port),
                                        app_ref |-> app_ref, pkg |-> found.pkg]}
                                 /\ last_call' = [listed EXCEPT !.http = 200,
                                                                !.pkg = found.pkg]
                                 /\ run_phase' = [run_phase EXCEPT ![r] = "installed"]
                            ELSE /\ last_call' = Failed(listed, 500, found.error)
                                 /\ UNCHANGED <<app_package_cache, discovered,
                                                run_phase>>
    /\ UNCHANGED <<endpoints, task_map, next_task, sessions, run_ref, run_task>>
    /\ UNCHANGED <<engine_vars, unit_vars, vnc_task_map>>

\* What _attempt_launch_app does, given what `monkey` and `am start` answer:
\* which launch methods were issued and how each ended, and the exception.
_attempt_launch_app(monkey_res, start_res) ==
    IF monkey_res = "timeout"
    THEN [primary |-> "timeout", fallback |-> "", error |-> "EmulatorConnectionError"]
    ELSE IF monkey_res = "injecting event"
    THEN [primary |-> "ok", fallback |-> "", error |-> ""]
    ELSE IF start_res = "timeout"
    THEN [primary |-> "failed", fallback |-> "timeout", error |-> "EmulatorConnectionError"]
    ELSE IF start_res = "Starting:"
    THEN [primary |-> "failed", fallback |-> "ok", error |-> ""]
    ELSE [primary |-> "failed", fallback |-> "failed", error |-> "EmulatorRunError"]

\* What an adb launch command can answer on a device.
MonkeyAnswers(host_port, pkg_name) ==
    {"no event", "timeout"} \cup
        (IF OnDevice(host_port, pkg_name) THEN {"injecting event"} ELSE {})
StartAnswers(host_port, pkg_name) ==
    {"Error", "timeout"} \cup
        (IF OnDevice(host_port, pkg_name) THEN {"Starting:"} ELSE {})

\* Mutant: the task is entered before the launch and the screenshot are known
\* to have worked.
RegisterTask_early(tm, error, task_id, entry) == Put(tm, task_id, entry)

\* `self.task_map[task_id] = {...}` is the statement after the launch and the
\* screenshot: an exception raised by either leaves task_map as it was.
RegisterTask(tm, error, task_id, entry) ==
    IF error = "" THEN Put(tm, task_id, entry) ELSE tm

\* POST /emulator/run_app
run_app(r) ==
    LET app_ref == run_ref[r]
        call == CallBy("run_app", r)
    IN
    /\ run_phase[r] = "installed"
    /\ IF endpoints = {}
       THEN /\ last_call' = Failed(call, 500, "EmulatorConnectionError")
            /\ UNCHANGED <<task_map, next_task, run_phase, run_task>>
       ELSE \E endpoint \in endpoints :
            LET host_port == HostPort(endpoint)
                here == [call EXCEPT !.host_port = host_port]
            IN
            IF app_ref \notin DOMAIN app_package_cache
            THEN /\ last_call' = Failed(here, 500, "KeyError")
                 /\ UNCHANGED <<task_map, next_task, run_phase, run_task>>
            ELSE LET pkg_name == app_package_cache[app_ref]
                     launching == [here EXCEPT !.pkg = pkg_name]
                 IN
                 \E launch \in {_attempt_launch_app(monkey_res, start_res) :
                                    monkey_res \in MonkeyAnswers(host_port, pkg_name),
                                    start_res \in StartAnswers(host_port, pkg_name)} :
                 \E screencap \in IF launch.error = "" THEN {"ok", "failed"} ELSE {"ok"} :
                    LET launched == [launching EXCEPT !.primary = launch.primary,
                                                      !.fallback = launch.fallback]
                        entry == [endpoint |-> endpoint, app_ref |-> pkg_name]
                    IN
                    IF launch.error # ""
                    THEN /\ last_call' = Failed(launched, 500, launch.error)
                         /\ task_map' = RegisterTask(task_map, launch.error, next_task, entry)
                         /\ UNCHANGED <<next_task, run_phase, run_task>>
                    ELSE IF screencap = "failed"
                    THEN /\ last_call' = Failed(launched, 500, "EmulatorRunError")
                         /\ task_map' = RegisterTask(task_map, "EmulatorRunError",
                                                     next_task, entry)
                         /\ UNCHANGED <<next_task, run_phase, run_task>>
                    ELSE /\ task_map' = RegisterTask(task_map, "", next_task, entry)
                         /\ next_task' = next_task + 1
                         /\ run_task' = [run_task EXCEPT ![r] = next_task]
                         /\ run_phase' = [run_phase EXCEPT ![r] = "running"]
                         /\ last_call' = [launched EXCEPT !.http = 200,
                                                          !.task = next_task]
    /\ UNCHANGED <<endpoints, app_package_cache, installed, sessions, discovered,
                   run_ref>>
    /\ UNCHANGED <<engine_vars, unit_vars, vnc_task_map>>

\* get_host_port_from_task_id: the device of a task, or the 404 it raises.
get_host_port_from_task_id(task_id) ==
    IF task_id \notin DOMAIN task_map
    THEN DetectFailed("404")
    ELSE Detected(HostPort(task_map[task_id].endpoint))

\* A task_id no run_app has returned: the next one uuid4 would give.
UnknownTask == next_task

\* The six routes that act on the device of a task.
ControlCommands == {"tap", "type", "swipe", "back", "home", "screenshot"}

\* POST /emulator/<command>?task_id= (GET for screenshot): the six handlers
\* have the same shape, get_host_port_from_task_id and control_app inside one
\* `try: ... except Exception` that answers 500.
control_endpoint(r, commands) ==
    /\ run_phase[r] = "running"
    /\ \E command \in commands, task_id \in {run_task[r], UnknownTask} :
       LET call == [CallBy(command, r) EXCEPT !.task = task_id]
           target == get_host_port_from_task_id(task_id)
       IN IF ~target.ok
          THEN last_call' = Failed(call, 500, "HTTPException 404")
          ELSE \E adb \in {"ok", "failed"} :
               last_call' = [call EXCEPT
                               !.host_port = target.pkg,
                               !.http = IF adb = "ok" THEN 200 ELSE 500,
                               !.error = IF adb = "ok" THEN "" ELSE "CalledProcessError"]
    /\ UNCHANGED <<endpoints, task_map, app_package_cache, installed, next_task,
                   sessions, discovered, run_ref, run_phase, run_task>>
    /\ UNCHANGED <<engine_vars, unit_vars, vnc_task_map>>

\* POST /emulator/back?task_id=
back_endpoint(r) == control_endpoint(r, {"back"})

\* GET /emulator/get_vnc_url?task_id=
get_vnc_url(r) ==
    /\ run_phase[r] = "running"
    /\ \E task_id \in {run_task[r], UnknownTask} :
       LET call == [CallBy("get_vnc_url", r) EXCEPT !.task = task_id]
       IN IF task_id \notin DOMAIN task_map
          THEN last_call' = Failed(call, 404, "KeyError")
          ELSE last_call' = [call EXCEPT
                               !.host_port = HostPort(task_map[task_id].endpoint),
                               !.http = 200,
                               !.pkg = <<"vnc:", HostOf(HostPort(task_map[task_id].endpoint)),
                                         "5900">>]
    /\ UNCHANGED <<endpoints, task_map, app_package_cache, installed, next_task,
                   sessions, discovered, run_ref, run_phase, run_task>>
    /\ UNCHANGED <<engine_vars, unit_vars, vnc_task_map>>

\* GET /{task_id}/vnc, served by routes_vnc.py with the EmulatorEnv it
\* constructs for itself.
get_vnc_url_for_task(r) ==
    /\ run_phase[r] = "running"
    /\ \E task_id \in {run_task[r], UnknownTask} :
       LET call == [CallBy("get_vnc_url_for_task", r) EXCEPT !.task = task_id]
       IN IF task_id \notin DOMAIN vnc_task_map
          THEN last_call' = Failed(call, 404, "KeyError")
          ELSE last_call' = [call EXCEPT
                               !.host_port = HostPort(vnc_task_map[task_id].endpoint),
                               !.http = 200,
                               !.pkg = <<"vnc:",
                                         HostOf(HostPort(vnc_task_map[task_id].endpoint)),
                                         "5900">>]
    /\ UNCHANGED <<endpoints, task_map, app_package_cache, installed, next_task,
                   sessions, discovered, run_ref, run_phase, run_task>>
    /\ UNCHANGED <<engine_vars, unit_vars, vnc_task_map>>

DeviceNext ==
    \/ \E r \in Runs : init_device(r)
    \/ \E r \in Runs : install_app(r)
    \/ \E r \in Runs : run_app(r)
    \/ \E r \in Runs : back_endpoint(r)
    \/ \E r \in Runs : get_vnc_url(r)

\* EmulatorEnv after __init__, with two runs that have made no call yet.
DeviceStart ==
    /\ endpoints = {}
    /\ task_map = EmptyMap
    /\ app_package_cache = EmptyMap
    /\ installed = [hp \in HostPorts |-> BaseListing]
    /\ next_task = 1
    /\ sessions = 0
    /\ discovered = {}
    /\ run_phase = [r \in Runs |-> "new"]
    /\ run_task = [r \in Runs |-> 0]
    /\ last_call = NoCall
    /\ vnc_task_map = EmptyMap

----------------------------------------------------------------------------
(* Bounds and initial states of the engine                                  *)

MaxDuration == 3        \* app_run_duration ranges over 1..MaxDuration
MaxInterval == 2        \* app_check_interval ranges over 1..MaxInterval
MaxConsecBound == 1     \* max_consecutive_errors ranges over 0..MaxConsecBound,
                        \* with max_total_errors one above it

DEFAULT_MAX_TOTAL_ERRORS == 15
DEFAULT_MAX_CONSECUTIVE_ERRORS == 3

VisionReplies ==
    { NetErr,
      Reply(<<PROSE>>),
      Reply(<<NUM>>),
      Reply(VisionObj("low", "0.9", "No suspicious UI", "None")),
      Reply(VisionObj("high", "0.6", "Overlay asks for password", "Back")),
      Reply(VisionObj("low", "0.9", "No suspicious UI", "Tap(x,y)")) }

ReflectReplies ==
    { NetErr,
      Reply(<<NUM>>),
      Reply(ReflectObj("low", "0.8", "Login screen seen")) }

AggReplies ==
    { NetErr,
      Reply(<<NUM>>),
      Reply(AggObj("high", "0.7", "echo")),
      Reply(AggObj("low", "0.9", "omit")) }

\* Every outcome each external call can have.
AnyEnv ==
    [prep |-> {"ok", "fail"}, shot |-> {"ok", "fail"}, vision |-> VisionReplies,
     action |-> {"ok", "ok_retried", "fail", "lost"},
     reflect |-> ReflectReplies, agg |-> AggReplies]

EmptySteps == [s \in {STEP0, STEP1, STEP2} |-> <<>>]

\* The state at the start of process, the configuration left open.
EngineStart ==
    /\ pc = "init_device"
    /\ attempt = 0
    /\ steps_data = EmptySteps
    /\ elapsed = 0
    /\ checks_count = 0
    /\ total_errors = 0
    /\ consecutive_errors = 0
    /\ vr = <<>>
    /\ prev_screenshot_path = "None"
    /\ memory = <<>>
    /\ ops = {}
    /\ streak = 0
    /\ iter_clean = TRUE
    /\ consec_at_start = 0
    /\ exhausted = "none"
    /\ slept = 0
    /\ agg_log = <<>>
    /\ dispatches = <<>>
    /\ retval = NotReturned

EngineInit ==
    /\ variant \in {"full", "full_2"}
    /\ allowed = AnyEnv
    /\ upload_needed \in BOOLEAN
    /\ run_duration \in 1..MaxDuration
    /\ interval \in 1..MaxInterval
    /\ IF variant = "full"
       THEN /\ max_consecutive_errors \in 0..MaxConsecBound
            /\ max_total_errors = max_consecutive_errors + 1
            /\ reflection_enabled \in BOOLEAN
            /\ memory_enabled = reflection_enabled
       ELSE /\ max_total_errors = DEFAULT_MAX_TOTAL_ERRORS
            /\ max_consecutive_errors = DEFAULT_MAX_CONSECUTIVE_ERRORS
            /\ reflection_enabled = FALSE
            /\ memory_enabled = FALSE
    /\ EngineStart

\* The Device Controller does not move while the engine is studied.
DeviceIdle ==
    /\ DeviceStart
    /\ run_ref = [r \in Runs |-> "a.apk"]

\* No _strict_json_parse call is under study.
NotParsed == [status |-> "none", result |-> <<>>, message |-> ""]
ParserIdle == raw = <<>> /\ keys = {} /\ parse_result = NotParsed

\* No _perform_action_once call is under study.
NotDispatched == [exc |-> "", rec |-> <<>>, request |-> NoRequest]
DispatchIdle ==
    /\ dispatcher = "app_worker_full" /\ action_text = "None" /\ post_outcome = "ok"
    /\ dispatch_result = NotDispatched

\* No WorkerManager call was made: the state __init__ leaves.
NoManagerCall ==
    [op |-> "none", task_id |-> "", ret |-> <<>>, processed |-> <<>>,
     outcomes |-> <<>>]
ManagerIdle == tasks_storage = <<>> /\ next_uuid = 0 /\ mgr_call = NoManagerCall

\* No reflection call was made in the iteration.
NoReflectCall == [called |-> FALSE, before |-> 0, after |-> 0, answer |-> <<>>]

\* The loop of app_worker_openai has not been entered: lines 393-414.
AgentIdle ==
    /\ agent_pc = "decide"
    /\ iter = 0
    /\ agent_memory = <<>>
    /\ output_memory = <<>>
    /\ error_flag = FALSE
    /\ agent_action = ""
    /\ screenshot_file = 0
    /\ last_screenshot_file = 0
    /\ captures = 0
    /\ agent_sent = <<>>
    /\ reflect_call = NoReflectCall

\* The clients that upload, and a client with no upload_app request made yet.
UploadClients == {"c1", "c2"}
NotUploading ==
    [pc |-> "idle", filename |-> <<>>, content |-> <<>>, f_out |-> 0, existed |-> FALSE,
     http |-> 0, detail |-> ""]

\* APKS_DIR as os.makedirs leaves it, and nobody uploading.
UploadIdle ==
    /\ apk_dir = EmptyMap
    /\ apk_files = <<>>
    /\ uploads = [c \in UploadClients |-> NotUploading]
    /\ uploads_started = 0

UnitIdle == ParserIdle /\ DispatchIdle /\ ManagerIdle /\ AgentIdle /\ UploadIdle

Init == EngineInit /\ DeviceIdle /\ UnitIdle
Next == EngineNext
Spec == Init /\ [][Next]_vars

\* The engine stays at its start while the Device Controller is studied.
EngineParked ==
    /\ variant = "full"
    /\ allowed = AnyEnv
    /\ upload_needed = FALSE
    /\ run_duration = 1
    /\ interval = 1
    /\ max_total_errors = DEFAULT_MAX_TOTAL_ERRORS
    /\ max_consecutive_errors = DEFAULT_MAX_CONSECUTIVE_ERRORS
    /\ reflection_enabled = FALSE
    /\ memory_enabled = FALSE
    /\ EngineStart

DeviceInit ==
    /\ EngineParked
    /\ DeviceStart
    /\ run_ref \in {f \in [Runs -> AppRefs] : f["A"] = "a.apk"}
    /\ UnitIdle

DeviceSpec == DeviceInit /\ [][DeviceNext]_vars

\* One run that prepares its app and then looks up its remote view on either
\* route.
SingleRunNext ==
    \/ init_device("A")
    \/ install_app("A")
    \/ run_app("A")
    \/ get_vnc_url("A")
    \/ get_vnc_url_for_task("A")
    \/ control_endpoint("A", ControlCommands)

SingleRunSpec == DeviceInit /\ [][SingleRunNext]_vars

\* The scenario of sixteen failing actions: every perform_action fails, every
\* other call succeeds, the Vision Oracle always asks for Back, and the budgets
\* are the defaults.
StreakIterations == 16

StreakEnv ==
    [prep |-> {"ok"}, shot |-> {"ok"},
     vision |-> {Reply(VisionObj("high", "0.6", "Overlay asks for password", "Back"))},
     action |-> {"fail"},
     reflect |-> {Reply(ReflectObj("low", "0.8", "Login screen seen"))},
     agg |-> {Reply(AggObj("high", "0.7", "echo"))}]

StreakInit ==
    /\ variant \in {"full", "full_2"}
    /\ allowed = StreakEnv
    /\ upload_needed \in BOOLEAN
    /\ run_duration = StreakIterations
    /\ interval = 1
    /\ max_total_errors = DEFAULT_MAX_TOTAL_ERRORS
    /\ max_consecutive_errors = DEFAULT_MAX_CONSECUTIVE_ERRORS
    /\ reflection_enabled \in BOOLEAN
    /\ memory_enabled = reflection_enabled
    /\ EngineStart
    /\ DeviceIdle
    /\ UnitIdle

SpecStreak == StreakInit /\ [][Next]_vars

\* _strict_json_parse on its own: the response is any short token text, with
\* or without prose around it, the required keys any set of key names.
KeyNames == {"risk_level", "confidence"}
MaxBody == 4

ParserTokens ==
    {LB, RB, LSQ, RSQ, NUM, STR, PROSE}
        \cup {KeyStr(k) : k \in KeyNames} \cup {Pair(k, "v") : k \in KeyNames}
Bodies(max) == UNION {[1..n -> ParserTokens] : n \in 0..max}
Wraps == {<<>>, <<PROSE>>}
\* A JSON array around a shorter body, as in [{"risk_level": ...}].
ArrayWrapped(max) == {<<LSQ>> \o body \o <<RSQ>> : body \in Bodies(max - 1)}
RawResponses(max) ==
    {lead \o body \o trail : lead \in Wraps, body \in Bodies(max), trail \in Wraps}
        \cup ArrayWrapped(max)

ParserInit ==
    /\ EngineParked
    /\ DeviceIdle
    /\ raw \in RawResponses(MaxBody)
    /\ keys \in SUBSET KeyNames
    /\ parse_result = NotParsed
    /\ DispatchIdle
    /\ ManagerIdle
    /\ AgentIdle
    /\ UploadIdle

Parse ==
    /\ parse_result = NotParsed
    /\ parse_result' = _strict_json_parse(raw, keys)
    /\ UNCHANGED <<raw, keys, engine_vars, device_vars, dispatch_vars, manager_vars,
                   agent_vars, upload_vars>>

ParserSpec == ParserInit /\ [][Parse]_vars

\* _perform_action_once on its own, in both implementations: any Action text,
\* any behaviour of the action endpoint.
ActionStrings ==
    {"None", "Back", "back", "Home", "Scroll", "Tap(1,2)", "Tap(3,4)", "Tap(x,y)",
     "Tap(1)", "tap(1,2)", "Swipe(1,2,3,4)", "Swipe(3,4,1,2)", "Swipe(1,2),(3,4)",
     "swipe(1,2),(3,4)", "Type(hi)", "Type(ok)"}

DispatchInit ==
    /\ EngineParked
    /\ DeviceIdle
    /\ ParserIdle
    /\ dispatcher \in {"app_worker_full", "controller"}
    /\ action_text \in ActionStrings
    /\ post_outcome \in {"ok", "ok_retried", "fail", "lost"}
    /\ dispatch_result = NotDispatched
    /\ ManagerIdle
    /\ AgentIdle
    /\ UploadIdle

PerformActionOnce ==
    /\ dispatch_result = NotDispatched
    /\ LET r == PerformOnce(dispatcher, action_text, post_outcome) IN
       dispatch_result' = [exc |-> r.exc, rec |-> r.rec,
                           request |-> RequestOf(dispatcher, action_text)]
    /\ UNCHANGED <<dispatcher, action_text, post_outcome, engine_vars, device_vars,
                   parser_vars, manager_vars, agent_vars, upload_vars>>

DispatchSpec == DispatchInit /\ [][PerformActionOnce]_vars

----------------------------------------------------------------------------
(* Claims about the Exploration Engine                                      *)

InLoop == pc \in {"loop_head", "shot", "vision", "action", "reflect"}
Ended == pc \in {"done", "raised"}

OverBudget ==
    total_errors > max_total_errors \/ consecutive_errors > max_consecutive_errors

PrepRecords == steps_data[STEP0] \o steps_data[STEP1]

\* The record _make_check_entry builds for a sub-step that used up its retries.
IsExhaustedRecord(r) ==
    r.confidence = "0.5" /\ r.explanation[2] = "Max retries exceeded"

\* C1: whatever the devices, the network and the oracles do, process ends by
\* returning status=completed with a verdict; it returns no error status and
\* lets no exception escape.
C1_AlwaysCompleted ==
    Ended => /\ pc = "done"
             /\ retval.status = "completed"
             /\ retval.risk_level \in {"low", "high"}

\* What the run has done once a preparation sub-step used up its retries: it
\* returned {completed, high, 0.5}, the reasons hold one record per call made
\* and end with the failed sub-step's record, and no screenshot, oracle call
\* or UI action was made.
StoppedAtPrepFailure ==
    /\ pc = "done"
    /\ retval.status = "completed"
    /\ retval.risk_level = "high"
    /\ retval.confidence = "0.5"
    /\ retval.reasons = steps_data
    /\ LET recs == retval.reasons[STEP0] \o retval.reasons[STEP1] IN
         /\ Len(recs) = Cardinality(ops)
         /\ IsExhaustedRecord(recs[Len(recs)])
         /\ \A i \in 1..(Len(recs) - 1) : ~IsExhaustedRecord(recs[i])
    /\ retval.reasons[STEP2] = <<>>
    /\ ops \subseteq {"init_device", "upload_app", "install_app", "run_app"}

\* C2: once a preparation sub-step (init_device, upload, install_app, run_app)
\* has exhausted its retries the run has returned {completed, high, 0.5} with
\* the records so far, and has made no later device operation, screenshot,
\* oracle call or UI action.
C2_PrepFailureVerdict == exhausted # "none" => StoppedAtPrepFailure

\* In app_worker_full the property of C2 holds for each of the four sub-steps.
PrepFailureVerdict_full ==
    (variant = "full" /\ exhausted # "none") => StoppedAtPrepFailure

\* C3: inside the exploration loop the error budget is never exceeded: the
\* increment that exceeds it leaves the loop in the same step, so no further
\* screenshot, oracle call, action, reflection or record follows it.
C3_BreakAtOnce == InLoop => ~OverBudget

C3_Witness ==
    /\ pc = "aggregate" /\ OverBudget /\ elapsed < run_duration
    /\ consecutive_errors > max_consecutive_errors
    /\ total_errors <= max_total_errors

\* C4: with max_consecutive_errors = 3 and perform_action failing in every
\* iteration, the loop is over right after the fourth failure in a row.
C4_StopsAfterFourth ==
    /\ streak <= 4
    /\ streak = 4 => ~InLoop

\* C5: at the end of an iteration in which no attempted sub-step failed,
\* consecutive_errors is 0, whatever it was when the iteration began.
C5_CleanIterationResets ==
    (pc \in {"loop_head", "aggregate"} /\ checks_count > 0 /\ iter_clean)
        => consecutive_errors = 0

C5_Witness ==
    /\ pc = "loop_head" /\ checks_count > 0 /\ iter_clean
    /\ consec_at_start > 0 /\ consecutive_errors = 0

IsErrorRecord(r) ==
    \/ r.status = "error"
    \/ r.analysis_agent = "emulator_screenshot" /\ r.confidence = "0.5"
    \/ r.analysis_agent = "vision_llm" /\ r.explanation[2] = "Vision LLM error"

\* The step appended a failure record to the exploration stage.
LoopFailureRecorded ==
    /\ Len(steps_data'[STEP2]) = Len(steps_data[STEP2]) + 1
    /\ IsErrorRecord(steps_data'[STEP2][Len(steps_data'[STEP2])])

\* C6: total_errors never decreases, the two counters only ever go up together
\* and by one, every failure the loop records does increment them, and
\* 0 <= consecutive_errors <= total_errors throughout.
C6_CountersMonotone ==
    /\ [](0 <= consecutive_errors /\ consecutive_errors <= total_errors)
    /\ [][/\ total_errors' >= total_errors
          /\ (total_errors' # total_errors \/ consecutive_errors' > consecutive_errors
                \/ LoopFailureRecorded)
               => /\ total_errors' = total_errors + 1
                  /\ consecutive_errors' = consecutive_errors + 1]_vars

C6_Witness ==
    /\ total_errors = 2 /\ consecutive_errors = 0 /\ pc = "vision"

\* C7: only the wall-clock budget and the error budget end the exploration
\* loop, and the run then goes on to its final verdict.
C7_OnlyBudgetsEndLoop ==
    [][(InLoop /\ ~InLoop') =>
          /\ pc' = "aggregate"
          /\ elapsed' >= run_duration \/ OverBudget']_vars

----------------------------------------------------------------------------
(* Claims about the Device Controller                                       *)

\* The install_app call just made listed the packages before and after a
\* successful `adb install`.
Diffed == last_call.op = "install_app" /\ last_call.listed

\* C8: install_app yields a package name only if exactly one listing line is
\* new; with no new line, or with two or more, it fails, picks no entry and
\* leaves the package cache without an entry for the app_ref.
C8_ExactlyOneNewLine ==
    (Diffed /\ last_call.new_lines # 1) =>
        /\ last_call.http # 200
        /\ last_call.pkg = <<>>
        /\ run_ref[last_call.run] \notin DOMAIN app_package_cache

\* The session an install_app call worked in: the device it chose, in the
\* period since the last init_device.
SameSessionBefore == last_call.op = "install_app" /\ last_call.prior # {}

\* C9: a later install_app of an app_ref already discovered in the same
\* session returns that package name without listing or installing, and a
\* cached name is served only in the session that discovered it.
C9_CachePerSession ==
    /\ SameSessionBefore =>
          /\ last_call.cache_hit
          /\ last_call.pkg \in last_call.prior
          /\ ~last_call.listed
    /\ (last_call.op = "install_app" /\ last_call.cache_hit) => SameSessionBefore

\* The devices a run is using: the one its task_id is bound to.
DevicesOf(r) ==
    IF run_task[r] \in DOMAIN task_map
    THEN {HostPort(task_map[run_task[r]].endpoint)}
    ELSE {}

\* C10: interleaved runs do not disturb each other: run_app of a run whose
\* install_app succeeded still finds its package, and a command keyed by one
\* run's task_id never goes to a device the other run is using.
C10_RunsIsolated ==
    /\ last_call.op = "run_app" => last_call.error # "KeyError"
    /\ (last_call.op = "back" /\ last_call.task \in DOMAIN task_map) =>
          \A s \in Runs \ {last_call.run} : last_call.host_port \notin DevicesOf(s)

----------------------------------------------------------------------------
(* Claims about aggregation, ordering and parsing                           *)

AllAggregationsFailed ==
    /\ Len(agg_log) = AGG_ATTEMPTS
    /\ \A i \in 1..Len(agg_log) : agg_log[i] # "completed"

\* C11: the Aggregation Oracle is called at most 3 times per run and never
\* again after the first response that parses with all required keys; when all
\* 3 attempts fail, what the run returns is {completed, high, 0.5} with the
\* accumulated Step Records as reasons, not an error.
C11_AggregationFallback ==
    /\ Len(agg_log) <= AGG_ATTEMPTS
    /\ \A i \in 1..(Len(agg_log) - 1) : agg_log[i] # "completed"
    /\ (AllAggregationsFailed /\ pc = "done") =>
          retval = Verdict("high", "0.5", steps_data)

\* The part of C11 that app_worker_full keeps as long as no exception escapes.
AggregationFallback_full ==
    /\ Len(agg_log) <= AGG_ATTEMPTS
    /\ \A i \in 1..(Len(agg_log) - 1) : agg_log[i] # "completed"
    /\ (variant = "full" /\ AllAggregationsFailed /\ pc = "done") =>
          retval = Verdict("high", "0.5", steps_data)

\* A run that reached aggregation and handed a verdict to its caller.
AggregatedVerdict ==
    pc = "done" /\ agg_log # <<>> /\ retval.status = "completed"

\* C12: for every run that reaches aggregation, whatever the Aggregation
\* Oracle answers, the reasons of the verdict handed to the caller hold every
\* accumulated Step Record, under its stage, in its order and unchanged.
C12_ReasonsEchoed == AggregatedVerdict => retval.reasons = steps_data

\* The stage of the run a position belongs to: preparation, identification,
\* exploration, aggregation, over.
StageRank(p) ==
    IF p \in {"init_device", "upload_app", "install_app", "run_app"} THEN 0
    ELSE IF p \in {"ident_shot", "ident_vision"} THEN 1
    ELSE IF p \in {"loop_head", "shot", "vision", "action", "reflect"} THEN 2
    ELSE IF p = "aggregate" THEN 3
    ELSE 4

IsPrefixOf(s, t) == Len(s) <= Len(t) /\ SubSeq(t, 1, Len(s)) = s

\* C13: within one run the preparation calls come before the first
\* identification call, the identification calls before the first exploration
\* iteration, the exploration iterations before the first aggregation call;
\* every stage's record list only grows at its end, so it is in the order the
\* work was done and no record is modified, removed or reordered.
C13_StagesInOrder ==
    [][ /\ StageRank(pc) <= StageRank(pc')
        /\ \A stage \in DOMAIN steps_data :
              /\ IsPrefixOf(steps_data[stage], steps_data'[stage])
              /\ Len(steps_data'[stage]) <= Len(steps_data[stage]) + 1
        /\ (agg_log' # agg_log) => steps_data' = steps_data ]_vars

\* An aggregation call is made with records in all three stages, several of
\* them from exploration.
C13_Witness ==
    /\ agg_log # <<>>
    /\ Len(steps_data[STEP0]) >= 2
    /\ Len(steps_data[STEP1]) >= 2
    /\ Len(steps_data[STEP2]) >= 3

\* The response is exactly one JSON object that holds all required keys.
BareObject(s, required_keys) ==
    JsonValid(s) /\ JsonKind(s) = "dict" /\ required_keys \subseteq DictKeys(s)

IsProse(s) == \A i \in 1..Len(s) : s[i] = PROSE

\* The response is such an object with prose before and/or after it.
WrappedObject(s, required_keys) ==
    \E i, j \in 1..Len(s) :
        /\ i <= j /\ (i > 1 \/ j < Len(s))
        /\ IsProse(SubSeq(s, 1, i - 1)) /\ IsProse(SubSeq(s, j + 1, Len(s)))
        /\ BareObject(SubSeq(s, i, j), required_keys)

\* The response holds no "{" with a "}" after it.
NoBraceBlock(s) == ~RegexMatches(s)

\* C14: a response that is exactly a JSON object holding all required keys
\* succeeds via the direct parse; the same object with leading and/or
\* trailing prose succeeds via the fallback; a response with no
\* brace-delimited block yields a parse error and never a success.
C14_StrictThenFallback ==
    parse_result # NotParsed =>
        /\ BareObject(raw, keys) => parse_result.status = "completed"
        /\ WrappedObject(raw, keys) =>
              ~JsonValid(raw) /\ parse_result.status = "completed"
        /\ NoBraceBlock(raw) => parse_result.status = "error"

\* The first two parts of C14, which the parser keeps.
ObjectsParse ==
    parse_result # NotParsed =>
        /\ BareObject(raw, keys) => parse_result = ParseOk(DictOf(raw))
        /\ WrappedObject(raw, keys) =>
              /\ ~JsonValid(raw)
              /\ parse_result = ParseOk(DictOf(RegexBlock(raw)))

----------------------------------------------------------------------------
(* Claims about launching, dispatching and looking up                       *)

\* The last call was a run_app that got as far as launching the app.
LaunchTried == last_call.op = "run_app" /\ last_call.primary # ""

\* C15: run_app tries the primary (event-injection) launch first; the
\* activity-start fallback is issued if and only if the primary launch
\* reported failure; a run error is raised only when both methods failed, and
\* a task_id is returned only if one of them succeeded.
C15_LaunchWithFallback ==
    /\ (last_call.op = "run_app" /\ last_call.fallback # "") => last_call.primary # ""
    /\ LaunchTried =>
          /\ last_call.fallback # "" <=> last_call.primary = "failed"
          /\ last_call.error = "EmulatorRunError" =>
                last_call.primary = "failed" /\ last_call.fallback = "failed"
          /\ last_call.http = 200 =>
                last_call.primary = "ok" \/ last_call.fallback = "ok"

\* The parts of C15 about the order of the launch methods and the task_id.
LaunchOrder ==
    /\ (last_call.op = "run_app" /\ last_call.fallback # "") => last_call.primary # ""
    /\ LaunchTried =>
          /\ last_call.fallback # "" <=> last_call.primary = "failed"
          /\ last_call.http = 200 =>
                last_call.primary = "ok" \/ last_call.fallback = "ok"

\* perform_action is over: its last attempt has been made.
ActionOver == dispatches # <<>> /\ pc # "action"
LastDispatch == dispatches[Len(dispatches)]

\* C16: perform_action makes at most two dispatch attempts for one Action:
\* the second only if the first failed, an error is surfaced only after the
\* second also failed, and a success on either attempt is returned without
\* any further attempt.
C16_RetryOnce ==
    /\ Len(dispatches) <= ACTION_ATTEMPTS
    /\ \A i \in 1..(Len(dispatches) - 1) : dispatches[i].status # "completed"
    /\ (ActionOver /\ LastDispatch.status # "completed") =>
          /\ Len(dispatches) = ACTION_ATTEMPTS
          /\ \A i \in 1..Len(dispatches) : dispatches[i].status # "completed"

\* C16 for the attempts that end with a returned dict.
RetryOnce_returned ==
    /\ Len(dispatches) <= ACTION_ATTEMPTS
    /\ \A i \in 1..(Len(dispatches) - 1) : dispatches[i].status = "error"
    /\ (ActionOver /\ LastDispatch.status = "error") =>
          Len(dispatches) = ACTION_ATTEMPTS

RECURSIVE TotalExecutions(_)
TotalExecutions(log) ==
    IF log = <<>> THEN 0 ELSE log[1].executed + TotalExecutions(Tail(log))

\* C17: each non-None Action of the Vision Oracle is consumed exactly once:
\* its input command is executed on the device once when the action is
\* reported successful, and never more than once, whatever responses are lost,
\* time out or are retried at the engine and device layers.
C17_ExecutedOnce ==
    /\ TotalExecutions(dispatches) <= 1
    /\ (ActionOver /\ LastDispatch.status = "completed") =>
          TotalExecutions(dispatches) = 1

\* The Actions in the form the Vision Oracle is asked to return, and the
\* device command each stands for.
WellFormedActions ==
    {"Tap(1,2)", "Tap(3,4)", "Swipe(1,2,3,4)", "Swipe(3,4,1,2)", "Type(hi)", "Type(ok)",
     "Back", "Home"}
CommandOf(a) ==
    CASE a = "Tap(1,2)" -> [endpoint |-> "/emulator/tap", json |-> <<1, 2>>]
      [] a = "Tap(3,4)" -> [endpoint |-> "/emulator/tap", json |-> <<3, 4>>]
      [] a = "Swipe(1,2,3,4)" -> [endpoint |-> "/emulator/swipe", json |-> <<1, 2, 3, 4>>]
      [] a = "Swipe(3,4,1,2)" -> [endpoint |-> "/emulator/swipe", json |-> <<3, 4, 1, 2>>]
      [] a = "Type(hi)" -> [endpoint |-> "/emulator/type", json |-> <<"hi">>]
      [] a = "Type(ok)" -> [endpoint |-> "/emulator/type", json |-> <<"ok">>]
      [] a = "Back" -> [endpoint |-> "/emulator/back", json |-> <<>>]
      [] a = "Home" -> [endpoint |-> "/emulator/home", json |-> <<>>]

Rejections == {"Unknown action", "Swipe parse fail", "Tap parse fail"}

\* C18: for every Action other than None written as the Vision Oracle is
\* asked to write it, perform_action issues the corresponding device command
\* with the same arguments; no well-formed Action is rejected as unknown or
\* unparseable.
C18_EveryActionDispatched ==
    (dispatch_result # NotDispatched /\ action_text \in WellFormedActions) =>
        /\ dispatch_result.request.endpoint = CommandOf(action_text).endpoint
        /\ dispatch_result.request.json = CommandOf(action_text).json
        /\ dispatch_result.rec.explanation[2] \notin Rejections

\* C18 for Tap, Back and Home, which both implementations dispatch.
TapBackHomeDispatched ==
    (dispatch_result # NotDispatched
        /\ action_text \in {"Tap(1,2)", "Tap(3,4)", "Back", "Home"}) =>
        /\ dispatch_result.request = CommandOf(action_text)
        /\ dispatch_result.rec.explanation[2] \notin Rejections

VncLookup == last_call.op \in {"get_vnc_url", "get_vnc_url_for_task"}

\* C19: on both lookup routes (GET /emulator/get_vnc_url?task_id= and
\* GET /{task_id}/vnc) the remote-view lookup returns a VNC URL if and only if
\* the task_id was returned by an earlier successful run_app, and otherwise
\* answers 404.
C19_VncLookup ==
    VncLookup =>
        /\ last_call.http = 200 <=> last_call.task \in DOMAIN task_map
        /\ last_call.http = 200 => last_call.pkg[1] = "vnc:"
        /\ last_call.http # 200 => last_call.http = 404

\* C19 on the route of routes_emulator.py.
VncLookup_emulator_route ==
    last_call.op = "get_vnc_url" =>
        /\ last_call.http = 200 <=> last_call.task \in DOMAIN task_map
        /\ last_call.http = 200 =>
              last_call.pkg = <<"vnc:", HostOf(HostPort(task_map[last_call.task].endpoint)),
                                "5900">>
        /\ last_call.http # 200 => last_call.http = 404

\* The records of identification and exploration, in order.
AnalysisRecords == steps_data[STEP1] \o steps_data[STEP2]

\* The scenario: preparation succeeded, exploration ran exactly 3 iterations,
\* nothing failed, every action was None, and the verdict has been returned.
ThreeCleanIterations ==
    /\ pc = "done" /\ agg_log = <<"completed">>
    /\ checks_count = 3 /\ total_errors = 0
    /\ "action" \notin ops
    /\ \A i \in 1..Len(AnalysisRecords) : ~IsErrorRecord(AnalysisRecords[i])

\* A decimal between 0 and 1 in hundredths.
Hundredths(d) ==
    CASE d = "0.0" -> 0 [] d = "0.5" -> 50 [] d = "0.6" -> 60 [] d = "0.7" -> 70
      [] d = "0.8" -> 80 [] d = "0.9" -> 90

RECURSIVE WeightSum(_)
WeightSum(recs) ==
    IF recs = <<>> THEN 0
    ELSE Hundredths(recs[1].weight) + WeightSum(Tail(recs))

RECURSIVE WeightedConfidenceSum(_)
WeightedConfidenceSum(recs) ==
    IF recs = <<>> THEN 0
    ELSE Hundredths(recs[1].weight) * Hundredths(recs[1].confidence)
         + WeightedConfidenceSum(Tail(recs))

\* The record of the identification vision call.
IdentRecord == steps_data[STEP1][Len(steps_data[STEP1])]

\* C20: in a run whose preparation succeeds and whose exploration runs
\* exactly 3 iterations with no errors and every action None, exactly 4 Step
\* Records (1 identification + 3 exploration) contribute to the verdict, the
\* final risk_level is the identification record's, and the final confidence
\* is the weight-normalised average of those 4 records' confidences.
C20_ThreeIterationVerdict ==
    ThreeCleanIterations =>
        /\ Len(steps_data[STEP1]) = 1 /\ Len(steps_data[STEP2]) = 3
        /\ retval.risk_level = IdentRecord.risk_level
        /\ WeightSum(AnalysisRecords) > 0
        /\ Hundredths(retval.confidence) * WeightSum(AnalysisRecords)
              = WeightedConfidenceSum(AnalysisRecords)

\* What the code does in that scenario: run_app and two identification calls
\* leave 3 records, each iteration leaves 2, all with weight 0.0, and the
\* verdict is the Aggregation Oracle's.
ThreeIterationRecords ==
    ThreeCleanIterations =>
        /\ Len(steps_data[STEP1]) = 3 /\ Len(steps_data[STEP2]) = 6
        /\ WeightSum(AnalysisRecords) = 0
        /\ retval.risk_level = IF retval.reasons = steps_data THEN "high" ELSE "low"

\* ---------------------------------------------------------------------------
\* A failed exploration capture (C21)
\* ---------------------------------------------------------------------------

\* The step is the exploration capture of one iteration and the capture failed.
CaptureFailed ==
    /\ pc = "shot"
    /\ Len(steps_data'[STEP2]) = Len(steps_data[STEP2]) + 1
    /\ steps_data'[STEP2][Len(steps_data'[STEP2])].confidence = "0.5"

\* What the loop does with a failed capture apart from the record's status:
\* both counters go up by one, one record is appended, and the iteration ends
\* there (next iteration, or the aggregation when a budget is exceeded).
CaptureFailureHandled ==
    [][CaptureFailed =>
          /\ total_errors' = total_errors + 1
          /\ consecutive_errors' = consecutive_errors + 1
          /\ pc' = IF BudgetExceeded(total_errors', consecutive_errors')
                   THEN "aggregate" ELSE "loop_head"
          /\ ops' \cap {"vision", "action", "reflect"}
                = ops \cap {"vision", "action", "reflect"}]_vars

\* C21: when the exploration capture of an iteration fails, both error
\* counters are incremented by one, a Step Record with status=error is appended
\* for that capture, and the iteration makes no Vision call, action or
\* reflection: the loop goes on with the next iteration, or breaks when a
\* budget is exceeded.
C21_CaptureFailure ==
    [][CaptureFailed =>
          /\ total_errors' = total_errors + 1
          /\ consecutive_errors' = consecutive_errors + 1
          /\ steps_data'[STEP2][Len(steps_data'[STEP2])].status = "error"
          /\ pc' = IF BudgetExceeded(total_errors', consecutive_errors')
                   THEN "aggregate" ELSE "loop_head"]_vars

\* ---------------------------------------------------------------------------
\* install_app on a device that already holds the package (C22)
\* ---------------------------------------------------------------------------

\* The step is an install_app call for an app_ref whose package the chosen
\* device already lists while the cache has no entry for the app_ref, and
\* `adb install` reported Success (the two listings were diffed).
ReinstallUncached ==
    /\ last_call'.op = "install_app"
    /\ last_call'.listed
    /\ run_ref[last_call'.run] \notin DOMAIN app_package_cache
    /\ OnDevice(last_call'.host_port, <<PkgOf(run_ref[last_call'.run])>>)

\* C22: install_app is safe to retry: called for an app_ref whose package is
\* already on the device but not in the cache, it returns that package's name
\* instead of failing.
C22_InstallRetrySafe ==
    [][ReinstallUncached =>
          /\ last_call'.http = 200
          /\ last_call'.pkg = <<PkgOf(run_ref[last_call'.run])>>]_vars

\* What the code does there when the listing shows nothing new: the package
\* discovery fails and nothing is cached.
ReinstallNothingNew ==
    [][(ReinstallUncached /\ last_call'.new_lines = 0) =>
          /\ last_call'.http = 500
          /\ last_call'.error = "No new packages found"
          /\ run_ref[last_call'.run] \notin DOMAIN app_package_cache']_vars

----------------------------------------------------------------------------
(* WorkerManager: the task store and its immediate and queued processing    *)

MaxEntries == 3         \* entries the store may hold in all

WorkerMap == {"text", "link"}                 \* the keys of worker_map
RequestedTypes == {"text", "audio"}          \* "audio" is not in worker_map
GivenTaskIds == {"t1", ""}                    \* "" stands for no task_id key
Payloads == {"hello", ""}                     \* the 'message' or 'url' field

\* str(uuid.uuid4()): a value never drawn before.
Uuid(n) == <<"u1", "u2", "u3", "u4", "u5", "u6", "u7", "u8", "u9", "u10">>[n]

TaskData(worker_type, task_id, payload) ==
    [worker_type |-> worker_type, task_id |-> task_id, payload |-> payload]

\* validate_task of the text and link workers: None, or {"error": ...}.
ValidationOk == [error |-> <<>>]
validate_task(worker_type, task_data) ==
    IF task_data.payload = ""
    THEN [error |-> IF worker_type = "text"
                    THEN <<"missing or empty 'message' field">>
                    ELSE <<"missing or empty 'url' field">>]
    ELSE ValidationOk

\* What worker.process may do: return a completed result, return an error
\* dict, or raise an Exception.
ProcessOutcomes == {"completed", "error", "raised"}
WorkerResult(outcome) ==
    IF outcome = "completed"
    THEN [status |-> "completed", result |-> "verdict", message |-> <<>>]
    ELSE [status |-> "error", result |-> "absent", message |-> <<"LLM unavailable">>]
WorkerException == "LLM failed"

\* f"Worker error: {str(e)}"
WorkerErrorMessage_bare(e) == <<e>>
WorkerErrorMessage(e) == <<"Worker error: ", e>>

Entry(worker_id, worker_type, status, task_data, result, message) ==
    [worker_id |-> worker_id, worker_type |-> worker_type, status |-> status,
     task_data |-> task_data, result |-> result, message |-> message]

HasTask(storage, task_id) == \E i \in 1..Len(storage) : storage[i].task_id = task_id
IndexOfTask(storage, task_id) ==
    CHOOSE i \in 1..Len(storage) : storage[i].task_id = task_id
EntriesOf(storage, task_id) ==
    IF HasTask(storage, task_id)
    THEN storage[IndexOfTask(storage, task_id)].entries ELSE <<>>

_ensure_task_id_exists(storage, task_id) ==
    IF HasTask(storage, task_id) THEN storage
    ELSE Append(storage, [task_id |-> task_id, entries |-> <<>>])

\* self.tasks_storage[task_id]["entries"].append(entry)
AppendEntry(storage, task_id, entry) ==
    [storage EXCEPT ![IndexOfTask(storage, task_id)].entries = Append(@, entry)]

RECURSIVE CountEntries(_)
CountEntries(storage) ==
    IF storage = <<>> THEN 0
    ELSE Len(Head(storage).entries) + CountEntries(Tail(storage))

ManagerReturn(status, message) == [status |-> status, message |-> message]

\* The task_id a call works under and the uuid4 values it draws: one for the
\* task_id when task_data has none, then one for the worker_id.
TaskIdOf(task_data) ==
    IF task_data.task_id # "" THEN task_data.task_id ELSE Uuid(next_uuid + 1)
DrawnFor(task_data) == IF task_data.task_id # "" THEN 1 ELSE 2

\* Mutant: the worker_id is the worker_type alone, without the uuid4 part.
_generate_worker_id_typed(worker_type, task_data) == <<worker_type, "">>

\* f"{worker_type}-{uuid.uuid4()}"
_generate_worker_id(worker_type, task_data) ==
    <<worker_type, Uuid(next_uuid + DrawnFor(task_data))>>

\* enqueue_task(task_data); ValueError for a worker_type outside worker_map.
enqueue_task ==
    /\ UNCHANGED <<engine_vars, device_vars, parser_vars, dispatch_vars, agent_vars, upload_vars>>
    /\ \E worker_type \in RequestedTypes, given \in GivenTaskIds, payload \in Payloads :
           LET task_data == TaskData(worker_type, given, payload)
               call == [NoManagerCall EXCEPT !.op = "enqueue_task"]
           IN
           IF worker_type = "" \/ worker_type \notin WorkerMap
           THEN /\ mgr_call' = [call EXCEPT !.ret = ManagerReturn("raised", <<"ValueError">>)]
                /\ UNCHANGED <<tasks_storage, next_uuid>>
           ELSE LET task_id == TaskIdOf(task_data)
                    stored == [task_data EXCEPT !.task_id = task_id]
                    new_entry == Entry(_generate_worker_id(worker_type, task_data),
                                       worker_type, "enqueued", stored, "absent", <<>>)
                IN
                /\ CountEntries(tasks_storage) < MaxEntries
                /\ tasks_storage' = AppendEntry(_ensure_task_id_exists(tasks_storage, task_id),
                                                task_id, new_entry)
                /\ next_uuid' = next_uuid + DrawnFor(task_data)
                /\ mgr_call' = [call EXCEPT !.task_id = task_id,
                                            !.ret = ManagerReturn("enqueued", <<>>)]

\* The entry process_task stores and the dict it returns, for a worker that
\* validated or processed task_data with the given outcome.
ProcessedNow(worker_id, worker_type, task_data, outcome) ==
    LET val_error == validate_task(worker_type, task_data)
        result == WorkerResult(outcome)
    IN
    IF val_error # ValidationOk
    THEN [entry |-> Entry(worker_id, worker_type, "error", task_data, "absent",
                          val_error.error),
          ret |-> ManagerReturn("error", val_error.error)]
    ELSE IF outcome = "raised"
    THEN [entry |-> Entry(worker_id, worker_type, "error", task_data, "absent",
                          WorkerErrorMessage(WorkerException)),
          ret |-> ManagerReturn("error", WorkerErrorMessage(WorkerException))]
    ELSE IF result.status = "completed"
    THEN [entry |-> Entry(worker_id, worker_type, "completed", task_data,
                          result.result, <<>>),
          ret |-> ManagerReturn("completed", <<>>)]
    ELSE [entry |-> Entry(worker_id, worker_type, "error", task_data, "absent",
                          result.message),
          ret |-> ManagerReturn("error", result.message)]

\* process_task(task_data)
process_task ==
    /\ UNCHANGED <<engine_vars, device_vars, parser_vars, dispatch_vars, agent_vars, upload_vars>>
    /\ \E worker_type \in RequestedTypes, given \in GivenTaskIds, payload \in Payloads,
                 outcome \in ProcessOutcomes :
           LET task_data == TaskData(worker_type, given, payload)
               call == [NoManagerCall EXCEPT !.op = "process_task"]
           IN
           IF worker_type = "" \/ worker_type \notin WorkerMap
           THEN /\ mgr_call' = [call EXCEPT
                                  !.ret = ManagerReturn("error",
                                                        <<"Unknown or missing worker_type.">>)]
                /\ UNCHANGED <<tasks_storage, next_uuid>>
           ELSE LET task_id == TaskIdOf(task_data)
                    stored == [task_data EXCEPT !.task_id = task_id]
                    done == ProcessedNow(_generate_worker_id(worker_type, task_data),
                                         worker_type, stored, outcome)
                    ran == validate_task(worker_type, stored) = ValidationOk
                IN
                /\ CountEntries(tasks_storage) < MaxEntries
                /\ tasks_storage' = AppendEntry(_ensure_task_id_exists(tasks_storage, task_id),
                                                task_id, done.entry)
                /\ next_uuid' = next_uuid + DrawnFor(task_data)
                /\ mgr_call' = [call EXCEPT !.task_id = task_id, !.ret = done.ret,
                                            !.outcomes = IF ran THEN <<outcome>> ELSE <<>>]

\* _process_enqueued_entry(task_id, entry_index): the entry, updated in place.
_process_enqueued_entry(entry, outcome) ==
    LET worker_type == entry.worker_type
        val_error == validate_task(worker_type, entry.task_data)
        result == WorkerResult(outcome)
    IN
    IF worker_type \notin WorkerMap
    THEN [entry EXCEPT !.status = "error",
                       !.message = <<"Unknown worker_type ", worker_type>>]
    ELSE IF val_error # ValidationOk
    THEN [entry EXCEPT !.status = "error", !.message = val_error.error]
    ELSE IF outcome = "raised"
    THEN [entry EXCEPT !.status = "error",
                       !.message = WorkerErrorMessage(WorkerException)]
    ELSE IF result.status = "completed"
    THEN [entry EXCEPT !.status = "completed", !.result = result.result]
    ELSE [entry EXCEPT !.status = "error", !.message = result.message]

\* The (task index, entry index) pairs process_enqueued_tasks collects, in the
\* order of the two nested loops.
RECURSIVE EnqueuedFrom(_, _, _)
EnqueuedFrom(storage, t, i) ==
    IF t > Len(storage) THEN <<>>
    ELSE IF i > Len(storage[t].entries) THEN EnqueuedFrom(storage, t + 1, 1)
    ELSE (IF storage[t].entries[i].status = "enqueued" THEN <<(<<t, i>>)>> ELSE <<>>)
           \o EnqueuedFrom(storage, t, i + 1)

to_process_first_only(storage) ==
    IF EnqueuedFrom(storage, 1, 1) = <<>> THEN <<>>
    ELSE <<Head(EnqueuedFrom(storage, 1, 1))>>
to_process(storage) == EnqueuedFrom(storage, 1, 1)

\* The second loop of process_enqueued_tasks: each collected entry that is still
\* enqueued is processed; the result is the store and the entries processed.
RECURSIVE RunQueue(_, _, _, _)
RunQueue(storage, todo, outcomes, processed) ==
    IF todo = <<>> THEN [storage |-> storage, processed |-> processed]
    ELSE LET t == Head(todo)[1]
             i == Head(todo)[2]
             current_status == storage[t].entries[i].status
         IN IF current_status = "enqueued"
            THEN RunQueue([storage EXCEPT ![t].entries[i] =
                              _process_enqueued_entry(@, Head(outcomes))],
                          Tail(todo), Tail(outcomes), Append(processed, Head(todo)))
            ELSE RunQueue(storage, Tail(todo), Tail(outcomes), processed)

\* process_enqueued_tasks(), as the server's repeating task calls it.
process_enqueued_tasks ==
    /\ UNCHANGED <<engine_vars, device_vars, parser_vars, dispatch_vars, agent_vars, upload_vars>>
    /\ LET todo == to_process(tasks_storage) IN
           \E outcomes \in [1..Len(todo) -> ProcessOutcomes] :
              LET ran == RunQueue(tasks_storage, todo, outcomes, <<>>) IN
              /\ tasks_storage' = ran.storage
              /\ mgr_call' = [NoManagerCall EXCEPT !.op = "process_enqueued_tasks",
                                                   !.processed = ran.processed,
                                                   !.outcomes = outcomes]
              /\ UNCHANGED next_uuid

ManagerNext ==
    \/ enqueue_task
    \/ process_task
    \/ process_enqueued_tasks

ManagerInit ==
    /\ EngineParked
    /\ DeviceIdle
    /\ ParserIdle
    /\ DispatchIdle
    /\ ManagerIdle
    /\ AgentIdle
    /\ UploadIdle

ManagerSpec == ManagerInit /\ [][ManagerNext]_vars

----------------------------------------------------------------------------
(* Claims about the WorkerManager                                           *)

StartsWithWorkerError(message) == message # <<>> /\ message[1] = "Worker error: "

\* The step is a process_task call whose worker raised in process.
ProcessTaskRaised ==
    /\ mgr_call'.op = "process_task"
    /\ mgr_call'.outcomes = <<"raised">>

\* The error entries a store holds under a task_id.
ErrorEntries(storage, task_id) ==
    {i \in 1..Len(EntriesOf(storage, task_id)) :
        EntriesOf(storage, task_id)[i].status = "error"}

\* The entries a process_enqueued_tasks step handed to a worker whose process
\* raised: positions in the list of processed entries.
QueuedRaised ==
    {k \in 1..Len(mgr_call'.processed) :
        LET e == tasks_storage[mgr_call'.processed[k][1]].entries[mgr_call'.processed[k][2]]
        IN /\ validate_task(e.worker_type, e.task_data) = ValidationOk
           /\ mgr_call'.outcomes[k] = "raised"}

\* C23: when the selected worker's process raises, process_task returns
\* {status: error} with a message starting with "Worker error:", records
\* exactly one error entry under the task_id and lets no exception out; an
\* enqueued entry whose worker raises ends as one error entry with such a
\* message as well.
C23_WorkerExceptionContained ==
    [][/\ ProcessTaskRaised =>
            LET task_id == mgr_call'.task_id IN
            /\ mgr_call'.ret.status = "error"
            /\ StartsWithWorkerError(mgr_call'.ret.message)
            /\ Len(EntriesOf(tasks_storage', task_id))
                 = Len(EntriesOf(tasks_storage, task_id)) + 1
            /\ Cardinality(ErrorEntries(tasks_storage', task_id))
                 = Cardinality(ErrorEntries(tasks_storage, task_id)) + 1
            /\ CountEntries(tasks_storage') = CountEntries(tasks_storage) + 1
            /\ StartsWithWorkerError(
                  EntriesOf(tasks_storage', task_id)
                      [Len(EntriesOf(tasks_storage', task_id))].message)
       /\ mgr_call'.op = "process_enqueued_tasks" =>
            /\ CountEntries(tasks_storage') = CountEntries(tasks_storage)
            /\ \A k \in QueuedRaised :
                 LET t == mgr_call'.processed[k][1]
                     i == mgr_call'.processed[k][2]
                 IN /\ tasks_storage'[t].entries[i].status = "error"
                    /\ StartsWithWorkerError(tasks_storage'[t].entries[i].message)
                    /\ tasks_storage[t].entries[i].status = "enqueued"]_vars

\* A process_task call whose worker raised has returned, and the store holds
\* an entry that was enqueued, then processed by a worker that raised.
C23_Witness ==
    /\ mgr_call.op = "process_task"
    /\ mgr_call.outcomes = <<"raised">>
    /\ mgr_call.ret.status = "error"
    /\ \E t \in 1..Len(tasks_storage) : \E i \in 1..Len(tasks_storage[t].entries) :
          /\ tasks_storage[t].entries[i].status = "error"
          /\ StartsWithWorkerError(tasks_storage[t].entries[i].message)
          /\ tasks_storage[t].entries[i].worker_id
               # EntriesOf(tasks_storage, mgr_call.task_id)
                    [Len(EntriesOf(tasks_storage, mgr_call.task_id))].worker_id

\* How often process_enqueued_tasks handed the entry at (t, i) to
\* _process_enqueued_entry.
TimesProcessed(processed, t, i) ==
    Cardinality({k \in 1..Len(processed) : processed[k] = <<t, i>>})

\* C24: after process_enqueued_tasks returns, every entry that was enqueued
\* when it was called is completed or error (also when validation fails or the
\* worker raises) and was processed exactly once, and every other entry is
\* untouched; no entry is added or removed.
C24_QueueDrained ==
    [][mgr_call'.op = "process_enqueued_tasks" =>
          /\ Len(tasks_storage') = Len(tasks_storage)
          /\ \A t \in 1..Len(tasks_storage) :
               /\ tasks_storage'[t].task_id = tasks_storage[t].task_id
               /\ Len(tasks_storage'[t].entries) = Len(tasks_storage[t].entries)
               /\ \A i \in 1..Len(tasks_storage[t].entries) :
                    IF tasks_storage[t].entries[i].status = "enqueued"
                    THEN /\ tasks_storage'[t].entries[i].status \in {"completed", "error"}
                         /\ TimesProcessed(mgr_call'.processed, t, i) = 1
                    ELSE /\ tasks_storage'[t].entries[i] = tasks_storage[t].entries[i]
                         /\ TimesProcessed(mgr_call'.processed, t, i) = 0]_vars

\* process_enqueued_tasks has returned after processing two entries, one that
\* failed validation and one whose worker raised, next to an entry that was
\* not enqueued.
C24_Witness ==
    /\ mgr_call.op = "process_enqueued_tasks"
    /\ Len(mgr_call.processed) = 2
    /\ CountEntries(tasks_storage) = 3
    /\ \E k \in 1..2 :
          tasks_storage[mgr_call.processed[k][1]].entries[mgr_call.processed[k][2]].message
             = <<"missing or empty 'message' field">>
    /\ \E k \in 1..2 :
          /\ mgr_call.outcomes[k] = "raised"
          /\ StartsWithWorkerError(
                tasks_storage[mgr_call.processed[k][1]].entries[mgr_call.processed[k][2]].message)

----------------------------------------------------------------------------
(* Claims about the two tiers of the parser                                 *)

\* Tier 1, the parse of the whole response, returned success.
Tier1Succeeds(s, required_keys) ==
    JsonValid(s) /\ CheckKeys(s, required_keys) = ParseOk(Parsed(s))

\* The brace-delimited block embedded in the response is a JSON object that
\* holds all required keys.
EmbeddedObject(s, required_keys) ==
    RegexMatches(s) /\ BareObject(RegexBlock(s), required_keys)

\* C25: whenever tier 1 does not return success, also when the whole response
\* is JSON that lacks a required key or is not an object (an array or string
\* around the object), tier 2 is still attempted on the embedded
\* brace-delimited block, and the parse succeeds if that block parses with all
\* required keys.
C25_Tier2AfterAnyTier1Failure ==
    (parse_result # NotParsed /\ ~Tier1Succeeds(raw, keys) /\ EmbeddedObject(raw, keys))
        => parse_result = ParseOk(DictOf(RegexBlock(raw)))

\* What the parser does: tier 2 runs only when the whole response is not JSON;
\* a response that is JSON never reaches it.
Tier2OnlyAfterDecodeError ==
    parse_result # NotParsed =>
        /\ JsonValid(raw) => parse_result = CheckKeys(raw, keys)
        /\ (~JsonValid(raw) /\ EmbeddedObject(raw, keys))
              => parse_result = ParseOk(DictOf(RegexBlock(raw)))

\* The position closing the first balanced top-level brace-delimited block that
\* opens at position i, 0 when the braces from i on never balance.
RECURSIVE BalancedEnd(_, _, _)
BalancedEnd(s, i, depth) ==
    IF i > Len(s) THEN 0
    ELSE IF s[i] = LB THEN BalancedEnd(s, i + 1, depth + 1)
    ELSE IF s[i] = RB
         THEN (IF depth = 1 THEN i ELSE BalancedEnd(s, i + 1, depth - 1))
    ELSE BalancedEnd(s, i + 1, depth)

\* The response holds a JSON object with all required keys as its first
\* balanced block, and further text with a brace after it.
ObjectThenBraces(s, required_keys) ==
    /\ BraceOpens(s) # {}
    /\ LET i == Min(BraceOpens(s))
           j == BalancedEnd(s, i, 0)
       IN /\ j # 0
          /\ BareObject(SubSeq(s, i, j), required_keys)
          /\ \E n \in (j + 1)..Len(s) : s[n] \in {LB, RB}

FirstBalancedBlock(s) ==
    SubSeq(s, Min(BraceOpens(s)), BalancedEnd(s, Min(BraceOpens(s)), 0))

\* C26: tier 2 parses the first balanced top-level brace-delimited block: a
\* response holding a valid JSON object with all required keys, followed by
\* further text that itself contains braces (a second object or a stray "}"),
\* is parsed successfully from that first block.
C26_FirstBalancedBlock ==
    (parse_result # NotParsed /\ ~JsonValid(raw) /\ ObjectThenBraces(raw, keys))
        => parse_result = ParseOk(DictOf(FirstBalancedBlock(raw)))

\* What tier 2 parses instead: the text from the first "{" to the last "}" of
\* the response, so the object is found only when no "}" follows it.
GreedyBlockParsed ==
    (parse_result # NotParsed /\ ~JsonValid(raw) /\ RegexMatches(raw)) =>
        parse_result = IF JsonValid(RegexBlock(raw))
                       THEN CheckKeys(RegexBlock(raw), keys)
                       ELSE ParseErr("LLM response not valid JSON (fallback)")

----------------------------------------------------------------------------
(* The loop of app_worker_openai: decision, memory, action, reflection      *)

MaxIter == 2            \* iterations of the loop that are followed
MaxAnswer == 2          \* length of the text after "### Answer ###"

reflection_switch == TRUE
memory_switch == TRUE

NL == "\\n"

\* The operation the decision names; "Wait" matches none of the branches.
AgentActions == {"Tap", "Back", "Home", "Stop", "Wait"}

\* The content the memory answer holds after "### Important content ###",
\* stripped: nothing, the word None, or a note.
Insights == {<<>>, <<"None">>, <<"p", "i", "n">>, <<"i", "n">>}

\* The answer of the Reflection Oracle: the letters it is asked for and other
\* text.
ReflectAnswers == UNION {[1..n -> {"A", "B", "C", "x"}] : n \in 1..MaxAnswer}

\* `piece in text` for strings.
IsSubstring(piece, text) ==
    \E i \in 0..(Len(text) - Len(piece)) : SubSeq(text, i + 1, i + Len(piece)) = piece
HasWord(text, word) == \E i \in 1..Len(text) : text[i] = word

\* Lines 454-456: memory after the content of one memory answer.
Remember(memory_text, insight) ==
    LET content == Append(insight, NL) IN
    IF ~HasWord(content, "None") /\ ~IsSubstring(content, memory_text)
    THEN memory_text \o content
    ELSE memory_text

\* Lines 458-489: the device command an operation sends.
AgentCommand(action) ==
    CASE action = "Tap" -> <<"tap">>
      [] action = "Back" -> <<"back">>
      [] action = "Home" -> <<"home">>
      [] OTHER -> <<>>

\* Lines 528-553: the error flag and the corrective command after the answer.
Reflected(reflect, flag) ==
    IF HasWord(reflect, "A") THEN [error_flag |-> FALSE, sent |-> <<>>]
    ELSE IF HasWord(reflect, "B") THEN [error_flag |-> TRUE, sent |-> <<"back">>]
    ELSE IF HasWord(reflect, "C") THEN [error_flag |-> TRUE, sent |-> <<>>]
    ELSE [error_flag |-> flag, sent |-> <<>>]

\* Lines 415-456: the first capture, the decision and the memory answer.
AgentDecide ==
    /\ agent_pc = "decide"
    /\ iter < MaxIter
    /\ iter' = iter + 1
    /\ IF iter = 0
       THEN captures' = captures + 1 /\ screenshot_file' = captures + 1
       ELSE UNCHANGED <<captures, screenshot_file>>
    /\ agent_action' \in AgentActions
    /\ IF memory_switch
       THEN \E insight \in Insights :
               /\ output_memory' = Append(insight, NL)
               /\ agent_memory' = Remember(agent_memory, insight)
       ELSE UNCHANGED <<output_memory, agent_memory>>
    /\ agent_pc' = "act"
    /\ agent_sent' = <<>>
    /\ reflect_call' = NoReflectCall
    /\ UNCHANGED <<error_flag, last_screenshot_file>>
    /\ UNCHANGED <<engine_vars, device_vars, parser_vars, dispatch_vars, manager_vars, upload_vars>>

\* Lines 458-504: the operation, then the screenshot is renamed and a new one
\* is taken.
AgentAct ==
    /\ agent_pc = "act"
    /\ IF agent_action = "Stop"
       THEN /\ agent_pc' = "stopped"
            /\ UNCHANGED <<agent_sent, screenshot_file, last_screenshot_file, captures>>
       ELSE /\ agent_sent' = AgentCommand(agent_action)
            /\ last_screenshot_file' = screenshot_file
            /\ captures' = captures + 1
            /\ screenshot_file' = captures + 1
            /\ agent_pc' = "reflect"
    /\ UNCHANGED <<iter, agent_memory, output_memory, error_flag, agent_action, reflect_call>>
    /\ UNCHANGED <<engine_vars, device_vars, parser_vars, dispatch_vars, manager_vars, upload_vars>>

\* Lines 517-571: the reflection call and what follows from its answer; the
\* renamed screenshot is removed at the end of the iteration.
AgentReflect ==
    /\ agent_pc = "reflect"
    /\ IF reflection_switch
       THEN \E reflect \in ReflectAnswers :
               /\ reflect_call' = [called |-> TRUE, before |-> last_screenshot_file,
                                   after |-> screenshot_file, answer |-> reflect]
               /\ error_flag' = Reflected(reflect, error_flag).error_flag
               /\ agent_sent' = agent_sent \o Reflected(reflect, error_flag).sent
       ELSE UNCHANGED <<reflect_call, error_flag, agent_sent>>
    /\ last_screenshot_file' = 0
    /\ agent_pc' = "decide"
    /\ UNCHANGED <<iter, agent_memory, output_memory, agent_action, screenshot_file, captures>>
    /\ UNCHANGED <<engine_vars, device_vars, parser_vars, dispatch_vars, manager_vars, upload_vars>>

AgentNext ==
    \/ AgentDecide
    \/ AgentAct
    \/ AgentReflect

AgentInit ==
    /\ EngineParked
    /\ DeviceIdle
    /\ UnitIdle

AgentSpec == AgentInit /\ [][AgentNext]_vars

----------------------------------------------------------------------------
(* Claims about reflection and memory                                       *)

ReflectionVerdicts == {"as expected", "unexpected, recoverable", "unexpected, blocking"}

\* The reply of the Reflection Oracle of app_worker_full whose explanation is
\* the verdict.
ReflectVerdictObj(verdict) ==
    <<LB, Pair("status", "completed"), Pair("risk_level", "low"),
      Pair("confidence", "0.8"), Pair("explanation", verdict), RB>>

\* Runs of the engine in which every call succeeds, the Vision Oracle asks for
\* Back each time and the Reflection Oracle answers with any of the verdicts.
ReflectionEnv ==
    [prep |-> {"ok"}, shot |-> {"ok"},
     vision |-> {Reply(VisionObj("high", "0.6", "Overlay asks for password", "Back"))},
     action |-> {"ok"},
     reflect |-> {Reply(ReflectVerdictObj(v)) : v \in ReflectionVerdicts},
     agg |-> {Reply(AggObj("high", "0.7", "echo"))}]

ReflectionInit ==
    /\ variant \in {"full", "full_2"}
    /\ allowed = ReflectionEnv
    /\ upload_needed \in BOOLEAN
    /\ run_duration \in 1..MaxDuration
    /\ interval = 1
    /\ max_total_errors = DEFAULT_MAX_TOTAL_ERRORS
    /\ max_consecutive_errors = DEFAULT_MAX_CONSECUTIVE_ERRORS
    /\ reflection_enabled = TRUE
    /\ memory_enabled \in BOOLEAN
    /\ EngineStart
    /\ DeviceIdle
    /\ UnitIdle

SpecReflection == ReflectionInit /\ [][Next]_vars

\* The step is a reflection call of the engine that the oracle answered with
\* the verdict.
ReflectionAnswered(verdict) ==
    /\ pc = "reflect"
    /\ Len(steps_data'[STEP2]) = Len(steps_data[STEP2]) + 1
    /\ steps_data'[STEP2][Len(steps_data'[STEP2])].status = "completed"
    /\ steps_data'[STEP2][Len(steps_data'[STEP2])].explanation[1] = verdict

\* C27: after a reflection call a corrective Back is sent to the device if and
\* only if the verdict is "unexpected, recoverable"; "as expected" clears the
\* error state and sends nothing; "unexpected, blocking" is recorded as an
\* error and sends nothing.
C27_CorrectiveBack ==
    [][\A verdict \in ReflectionVerdicts :
          ReflectionAnswered(verdict) =>
             /\ dispatches' # <<>> <=> verdict = "unexpected, recoverable"
             /\ verdict = "as expected" => consecutive_errors' = 0
             /\ verdict = "unexpected, blocking" =>
                   /\ total_errors' = total_errors + 1
                   /\ consecutive_errors' = consecutive_errors + 1]_vars

\* What app_worker_full does with an answered reflection, whatever the
\* verdict: it sends nothing, counts no error and clears consecutive_errors.
ReflectionVerdictIgnored ==
    [][\A verdict \in ReflectionVerdicts :
          ReflectionAnswered(verdict) =>
             /\ dispatches' = <<>>
             /\ total_errors' = total_errors
             /\ consecutive_errors' = 0]_vars

\* The answer names exactly this letter of A, B and C.
Says(reflect, letter) ==
    /\ HasWord(reflect, letter)
    /\ \A other \in {"A", "B", "C"} \ {letter} : ~HasWord(reflect, other)

\* What app_worker_openai does with an answer that names one letter: B, and
\* only B, sends back; A clears error_flag; B and C set it.
LetterAnswerHandled ==
    [][(agent_pc = "reflect" /\ reflect_call'.called) =>
          LET reflect == reflect_call'.answer IN
          /\ Says(reflect, "A") => (error_flag' = FALSE /\ agent_sent' = agent_sent)
          /\ Says(reflect, "B") => (error_flag' = TRUE /\ agent_sent' = Append(agent_sent, "back"))
          /\ Says(reflect, "C") => (error_flag' = TRUE /\ agent_sent' = agent_sent)]_vars

\* The step is the end of an iteration of app_worker_full in which
\* _reflect_on_change was called.
ReflectionCalled ==
    /\ pc = "reflect"
    /\ \/ Len(steps_data'[STEP2]) = Len(steps_data[STEP2]) + 1
       \/ pc' = "raised"

\* C28: the Reflection Oracle is called in an iteration if and only if
\* reflection is enabled and a non-None action was taken in that iteration,
\* and it is handed as "before" the screenshot captured before that action and
\* as "after" a different screenshot, captured after the action.
C28_ReflectionBeforeAfter ==
    [][pc = "reflect" =>
          /\ ReflectionCalled <=> (reflection_enabled /\ ~IsNoneAction(vr["action"]))
          /\ ReflectionCalled => prev_screenshot_path # SCREENSHOT_PATH]_vars

\* What app_worker_full does: the call also needs a screenshot path kept from
\* an earlier iteration, so the first action of a run is never reflected on,
\* and both screenshots handed over are the one file the capture of this
\* iteration, taken before the action, was written to.
ReflectionFromSecondAction ==
    [][pc = "reflect" =>
          /\ ReflectionCalled <=>
                (reflection_enabled /\ prev_screenshot_path # "None"
                    /\ ~IsNoneAction(vr["action"]))
          /\ ReflectionCalled => prev_screenshot_path = SCREENSHOT_PATH]_vars

\* What app_worker_openai hands over: the capture taken before the operation
\* as "before" and a later capture as "after".
AgentBeforeAfter ==
    [][(agent_pc = "reflect" /\ reflect_call'.called) =>
          /\ reflect_call'.before = last_screenshot_file
          /\ reflect_call'.after = screenshot_file
          /\ 0 < reflect_call'.before
          /\ reflect_call'.before < reflect_call'.after]_vars

\* The content the memory answer of this step held, without its newline.
ContentRemembered == SubSeq(output_memory', 1, Len(output_memory') - 1)

\* Memory holds the content as one of its lines.
HasLine(memory_text, content) ==
    \/ IsPrefixOf(Append(content, NL), memory_text)
    \/ IsSubstring(<<NL>> \o Append(content, NL), memory_text)

\* The step is a memory update of app_worker_openai.
MemoryUpdated == agent_pc = "decide" /\ agent_pc' = "act" /\ memory_switch

\* C29: Memory is append-only within a run: every update leaves the previous
\* content as a prefix of the new content; an insight that is empty or already
\* contained in Memory leaves Memory unchanged, so updating twice with the
\* same insight equals updating once; with memory disabled Memory never
\* changes.
C29_MemoryAppendOnly ==
    [][/\ MemoryUpdated =>
            /\ IsPrefixOf(agent_memory, agent_memory')
            /\ (ContentRemembered = <<>> \/ HasLine(agent_memory, ContentRemembered))
                  => agent_memory' = agent_memory
            /\ Remember(agent_memory', ContentRemembered) = agent_memory'
       /\ ~memory_switch => agent_memory' = agent_memory]_vars

\* The parts of C29 that app_worker_openai keeps: the old content stays a
\* prefix, a content that is already a line is not added again, and a second
\* update with the same content changes nothing.
AgentMemoryGrows ==
    [][MemoryUpdated =>
          /\ IsPrefixOf(agent_memory, agent_memory')
          /\ HasLine(agent_memory, ContentRemembered) => agent_memory' = agent_memory
          /\ Remember(agent_memory', ContentRemembered) = agent_memory']_vars

\* Insights _update_memory of app_worker_full may be handed.
EngineInsights ==
    {<<"", "">>, <<"", "Login screen seen">>, <<"", "No new insight">>,
     <<"Additional insight from vision: ", "Overlay asks for password">>}

\* C29 for _update_memory of app_worker_full, which keeps all of it.
UpdateMemoryAppendOnly ==
    /\ [][IsPrefixOf(memory, memory') /\ (~memory_enabled => memory' = memory)]_vars
    /\ [](\A insight \in EngineInsights :
             /\ IsPrefixOf(memory, _update_memory(memory, insight))
             /\ (insight[2] = "" \/ MemoryContains(memory, insight))
                   => _update_memory(memory, insight) = memory
             /\ _update_memory(_update_memory(memory, insight), insight)
                   = _update_memory(memory, insight))


\* ---------------------------------------------------------------------------
\* The Vision Oracle request of an exploration iteration
\* ---------------------------------------------------------------------------

\* `instructions = task_data.get("instructions", "No specific instructions.")`
instructions == "No specific instructions."

\* The values the f-string vision_prompt interpolates: {instructions},
\* {run_duration} and {checks_count}; the rest of the prompt is fixed text.
vision_prompt ==
    [instructions |-> instructions, run_duration |-> run_duration, checks_count |-> checks_count]

\* body = {"prompt": prompt, "images": [b64_img]} with image_path = screenshot_path.
VisionBody == [prompt |-> vision_prompt, images |-> <<SCREENSHOT_PATH>>]

\* The request is being made: an attempt of the vision call of the loop is next.
VisionRequested == pc = "vision"

Carries(part, field, value) == field \in DOMAIN part /\ part[field] = value

\* The screenshot record of the running iteration is the last record of the
\* exploration stage: the file of VisionBody was captured in this iteration.
CapturedThisIteration ==
    /\ steps_data[STEP2] # <<>>
    /\ steps_data[STEP2][Len(steps_data[STEP2])].check_id
          = CheckId("check_2_explore_shot", checks_count)

\* C30: the Vision Oracle request of iteration k carries the instructions, the
\* screenshot captured in iteration k, the Memory accumulated in the
\* iterations before k, and the iteration index k.
C30_VisionRequestContent ==
    VisionRequested =>
        /\ Carries(VisionBody.prompt, "instructions", instructions)
        /\ VisionBody.images = <<SCREENSHOT_PATH>> /\ CapturedThisIteration
        /\ memory # <<>> => Carries(VisionBody.prompt, "memory", memory)
        /\ Carries(VisionBody.prompt, "checks_count", checks_count)

\* What the request does carry: the instructions, the screenshot of this
\* iteration and the iteration index, which counts the iterations begun.
VisionRequestWithoutMemory ==
    VisionRequested =>
        /\ Carries(VisionBody.prompt, "instructions", instructions)
        /\ VisionBody.images = <<SCREENSHOT_PATH>> /\ CapturedThisIteration
        /\ Carries(VisionBody.prompt, "checks_count", checks_count)
        /\ checks_count >= 1
        /\ "memory" \notin DOMAIN VisionBody.prompt

\* A request made while Memory holds an insight of an earlier iteration.
VisionRequestedWithMemory == VisionRequested /\ memory # <<>> /\ checks_count >= 2


\* ---------------------------------------------------------------------------
\* The retries of the preparation sub-steps
\* ---------------------------------------------------------------------------

PrepSteps == {"init_device", "upload_app", "install_app", "run_app"}

\* The attempts a sub-step may make and the wait between two of them.
FixedCount(step) == IF step = "run_app" THEN 2 ELSE 3
FixedWait(step) == IF step = "run_app" THEN 60 ELSE 30

\* The order in which process goes through the sub-steps; 5: past them.
PrepRank(p) ==
    CASE p = "init_device" -> 1 [] p = "upload_app" -> 2 [] p = "install_app" -> 3
      [] p = "run_app" -> 4 [] OTHER -> 5

PrepStage(step) == IF step = "run_app" THEN STEP1 ELSE STEP0

\* This step appended the sub-step's record, built from a _retry_call result
\* of the given status (app_worker_full_2 does not copy the status into it).
PrepReported(status) ==
    /\ Len(steps_data'[PrepStage(pc)]) = Len(steps_data[PrepStage(pc)]) + 1
    /\ steps_data'[PrepStage(pc)][Len(steps_data'[PrepStage(pc)])].confidence
          = (IF status = "completed" THEN "0.8" ELSE "0.5")

\* This step was a failed attempt that _retry_call follows with another one.
PrepRetried == pc' = pc

\* C31: each preparation sub-step is attempted at most its fixed count (3 for
\* init_device, upload and install; 2 for run_app) and never again after its
\* first success; the fixed wait follows every failed attempt but the last;
\* the sub-step reports an error only when all its attempts failed.
C31_PrepRetries ==
    [][/\ PrepRank(pc') >= PrepRank(pc)
       /\ pc \in PrepSteps =>
            /\ attempt < FixedCount(pc)
            /\ PrepReported("completed") =>
                  /\ PrepRank(pc') > PrepRank(pc)
                  /\ attempt' = 0
                  /\ slept' = 0
            /\ PrepRetried =>
                  /\ attempt' = attempt + 1
                  /\ attempt' < FixedCount(pc)
                  /\ slept' = FixedWait(pc)
                  /\ steps_data' = steps_data
            /\ PrepReported("error") =>
                  /\ attempt = FixedCount(pc) - 1
                  /\ pc' = "done"
            /\ (~PrepRetried /\ ~PrepReported("completed")) =>
                  /\ attempt = FixedCount(pc) - 1
                  /\ slept' = 0]_vars

\* run_app is at its second and last attempt, one wait after the first failed;
\* the three sub-steps before it succeeded.
C31_Witness ==
    /\ pc = "run_app" /\ attempt = 1 /\ slept = 60
    /\ upload_needed /\ Len(steps_data[STEP0]) = 3

\* A sub-step gave up after its last attempt, without a wait.
PrepGaveUp == exhausted = "install_app" /\ slept = 0 /\ pc = "done"


\* ---------------------------------------------------------------------------
\* Device commands for a task_id that is not in the task map
\* ---------------------------------------------------------------------------

\* The call just answered was one of the six device routes, for a task_id
\* that task_map does not hold.
ControlForUnknownTask ==
    last_call.op \in ControlCommands /\ last_call.task \notin DOMAIN task_map

\* No adb command was addressed to a device by the call just answered.
NoDeviceCommand == last_call.host_port = <<>>

\* C32: a tap, type, swipe, back, home or screenshot request whose task_id is
\* not in the task map is answered with HTTP 404 and executes no device
\* command.
C32_UnknownTask404 ==
    ControlForUnknownTask => last_call.http = 404 /\ NoDeviceCommand

\* What the handlers do: the 404 of get_host_port_from_task_id is caught by
\* their `except Exception` and answered as 500; no device command is run.
UnknownTaskAnswered500 ==
    ControlForUnknownTask =>
        /\ last_call.http = 500
        /\ last_call.error = "HTTPException 404"
        /\ NoDeviceCommand


\* ---------------------------------------------------------------------------
\* The device the operations of one run address
\* ---------------------------------------------------------------------------

\* install_app put app_ref on this device in the running session.
InstalledOn(app_ref, host_port) ==
    \E d \in discovered : d.app_ref = app_ref /\ d.session = Session(host_port)

\* The call just answered was a run_app that addressed its launch to a device.
LaunchAddressed == last_call.op = "run_app" /\ last_call.primary # ""

\* The call just answered was a device route that ran its adb command.
ControlAddressed == last_call.op \in ControlCommands /\ last_call.host_port # <<>>

\* Every task_id keeps the record run_app gave it.
TaskBindingKept == \A t \in DOMAIN task_map : t \in DOMAIN task_map' /\ task_map'[t] = task_map[t]

\* A launch goes to the device the app was installed on.
LaunchOnInstallDevice ==
    LaunchAddressed => InstalledOn(run_ref[last_call.run], last_call.host_port)

\* A device route goes to the endpoint bound to its task_id.
ControlOnTaskDevice ==
    ControlAddressed =>
        /\ last_call.task \in DOMAIN task_map
        /\ last_call.host_port = HostPort(task_map[last_call.task].endpoint)

\* A task_id is bound to the device its launch and initial screenshot used.
TaskBoundToLaunchDevice ==
    (last_call.op = "run_app" /\ last_call.http = 200) =>
        /\ last_call.task \in DOMAIN task_map
        /\ HostPort(task_map[last_call.task].endpoint) = last_call.host_port

\* C33: the device operations of one run (install_app, the launch and the
\* initial screenshot of run_app, every later action or screenshot keyed by
\* the task_id) address the same endpoint, also when several endpoints are
\* provisioned; the endpoint bound to a task_id never changes.
C33_OneEndpointPerRun ==
    [][/\ LaunchOnInstallDevice'
       /\ TaskBoundToLaunchDevice'
       /\ ControlOnTaskDevice'
       /\ TaskBindingKept]_vars

\* What holds: a device route addresses the endpoint run_app bound to the
\* task_id, the device the launch and the initial screenshot used, and the
\* binding never changes.
TaskEndpointStable ==
    [][/\ TaskBoundToLaunchDevice'
       /\ ControlOnTaskDevice'
       /\ TaskBindingKept]_vars


\* ---------------------------------------------------------------------------
\* What run_app leaves behind
\* ---------------------------------------------------------------------------

\* The step is a run_app call that answered with the given success or failure.
RunAppAnswered(ok) == last_call'.op = "run_app" /\ (last_call'.http = 200) = ok

\* One of the two launch methods worked in the call just answered.
Launched == last_call.primary = "ok" \/ last_call.fallback = "ok"

RunAppFailedBesideTask ==
    /\ last_call.op = "run_app" /\ last_call.http = 500 /\ Launched
    /\ task_map # EmptyMap


\* ---------------------------------------------------------------------------
\* The session init_device starts
\* ---------------------------------------------------------------------------

\* The step is an init_device call that returned.
InitDeviceReturned == last_call'.op = "init_device" /\ last_call'.http = 200

\* The task_ids run_app has issued so far.
IssuedTasks == 1..(next_task - 1)

\* task_id resolves to a device for an action or a screenshot, and for the
\* remote-view lookup of GET /emulator/get_vnc_url.
Resolves(task_id) == get_host_port_from_task_id(task_id).ok /\ task_id \in DOMAIN task_map

\* C35: init_device starts a fresh session: after it returns the package cache
\* is empty and no task_id issued before the call still resolves to a device
\* for actions, screenshots or remote-view lookup.
C35_FreshSession ==
    [][InitDeviceReturned =>
          /\ app_package_cache' = EmptyMap
          /\ \A task_id \in IssuedTasks : ~Resolves(task_id)']_vars

\* What init_device does: it empties the package cache, whether it returns or
\* raises, and leaves task_map alone, so every task_id keeps resolving.
InitDeviceKeepsTasks ==
    [][last_call'.op = "init_device" =>
          /\ app_package_cache' = EmptyMap
          /\ task_map' = task_map
          /\ \A task_id \in IssuedTasks : Resolves(task_id) /\ Resolves(task_id)']_vars


\* ---------------------------------------------------------------------------
\* The number of exploration iterations
\* ---------------------------------------------------------------------------

\* ceil(a / b) for b > 0.
Ceil(a, b) == (a + b - 1) \div b

\* This step starts an exploration iteration.
IterationStarted == checks_count' # checks_count

\* C36: with a sampling interval > 0 the exploration loop performs at most
\* ceil(run_duration / interval) iterations: each iteration sleeps one interval
\* before working and a new iteration starts only while the elapsed time is
\* below run_duration.
C36_IterationBound ==
    [][/\ interval > 0 => checks_count' <= Ceil(run_duration, interval)
       /\ IterationStarted =>
             /\ checks_count' = checks_count + 1
             /\ elapsed < run_duration
             /\ elapsed' >= elapsed + interval
             /\ pc' = "shot"]_vars

\* The bound is met where the interval does not divide the duration: the last
\* iteration has started after 2 of 3 minutes and ends after the run is over.
C36_Witness ==
    /\ run_duration = 3 /\ interval = 2
    /\ checks_count = Ceil(run_duration, interval)
    /\ elapsed > run_duration
    /\ pc = "vision"


\* ---------------------------------------------------------------------------
\* The life of a WorkerManager entry
\* ---------------------------------------------------------------------------

EntryStatuses == {"enqueued", "completed", "error"}

StatusesValid(storage) ==
    \A t \in 1..Len(storage) : \A i \in 1..Len(storage[t].entries) :
        storage[t].entries[i].status \in EntryStatuses

WorkerIdsUnique(storage) ==
    \A t \in 1..Len(storage) : \A i \in 1..Len(storage[t].entries) :
    \A u \in 1..Len(storage) : \A j \in 1..Len(storage[u].entries) :
        storage[t].entries[i].worker_id = storage[u].entries[j].worker_id
            => (t = u /\ i = j)

\* An entry before and after a step: the same, or an enqueued entry that got
\* its outcome and kept what identifies it.
EntryStepAllowed(old, new) ==
    \/ new = old
    \/ /\ old.status = "enqueued"
       /\ new.status \in {"completed", "error"}
       /\ new.worker_id = old.worker_id
       /\ new.worker_type = old.worker_type
       /\ new.task_data = old.task_data

\* C37: every entry's status is always enqueued, completed or error; the only
\* status transitions are enqueued->completed and enqueued->error; a completed
\* or error entry is never modified afterwards; entries are never removed; and
\* every worker_id is unique across all entries, after any sequence of
\* enqueue_task, process_task and process_enqueued_tasks calls.
C37_EntryLifecycle ==
    /\ [](StatusesValid(tasks_storage) /\ WorkerIdsUnique(tasks_storage))
    /\ [][/\ Len(tasks_storage') >= Len(tasks_storage)
          /\ \A t \in 1..Len(tasks_storage) :
                tasks_storage'[t].task_id = tasks_storage[t].task_id
          /\ \A t \in 1..Len(tasks_storage) : \A i \in 1..Len(tasks_storage[t].entries) :
                /\ i <= Len(tasks_storage'[t].entries)
                /\ EntryStepAllowed(tasks_storage[t].entries[i], tasks_storage'[t].entries[i])]_vars

\* Three entries under one task_id, one stored by process_task and two taken
\* from the queue, one of them completed and one in error.
C37_Witness ==
    /\ mgr_call.op = "process_enqueued_tasks"
    /\ Len(mgr_call.processed) = 2
    /\ Len(tasks_storage) = 1
    /\ Len(tasks_storage[1].entries) = 3
    /\ \E i, j \in 1..3 :
          /\ tasks_storage[1].entries[i].status = "completed"
          /\ tasks_storage[1].entries[j].status = "error"
    /\ \E i, j \in 1..3 :
          /\ i # j
          /\ tasks_storage[1].entries[i].worker_type = tasks_storage[1].entries[j].worker_type


-----------------------------------------------------------------------------
(* POST /emulator/upload_app (providers/api/routes_emulator.py)             *)

MaxUploads == 3         \* upload_app requests that are followed

\* file.filename.strip(): empty, a name, and a name that ends in ".tmp".
UploadFilenames == {<<>>, <<"a.apk">>, <<"a.apk", ".tmp">>}

\* The bytes of an uploaded file.
UploadContents == {<<1>>, <<2, 2>>}

\* temp_path = local_path + ".tmp"
TempPath(local_path) == Append(local_path, ".tmp")

\* open(path, "wb"): an existing file is truncated, a missing one is created.
OpenForWrite(dir, files, path) ==
    IF path \in DOMAIN dir
    THEN [dir |-> dir, files |-> [files EXCEPT ![dir[path]] = <<>>], f |-> dir[path]]
    ELSE [dir |-> Put(dir, path, Len(files) + 1), files |-> Append(files, <<>>),
          f |-> Len(files) + 1]

\* f_out.write(content) on a file object at offset 0.
Written(old, content) == content \o SubSeq(old, Len(content) + 1, Len(old))

\* compute_sha256(file_path): the digest of the bytes the path names; two
\* digests are equal exactly when the bytes are.
compute_sha256(dir, files, file_path) == files[dir[file_path]]

\* os.remove(path)
Remove(dir, path) == [x \in DOMAIN dir \ {path} |-> dir[x]]

Answer(request, http, detail) ==
    [request EXCEPT !.pc = "done", !.http = http, !.detail = detail]

\* upload_app up to `await file.read()`: the filename test and open(temp_path, "wb").
upload_app_open(c) ==
    /\ uploads[c].pc \in {"idle", "done"}
    /\ uploads_started < MaxUploads
    /\ uploads_started' = uploads_started + 1
    /\ \E filename \in UploadFilenames, content \in UploadContents, opening \in {"ok", "OSError"} :
          LET request == [NotUploading EXCEPT !.filename = filename, !.content = content,
                                              !.existed = filename \in DOMAIN apk_dir]
              opened == OpenForWrite(apk_dir, apk_files, TempPath(filename))
          IN IF filename = <<>>
             THEN /\ uploads' = [uploads EXCEPT ![c] =
                                   Answer(request, 400, "No filename provided.")]
                  /\ UNCHANGED <<apk_dir, apk_files>>
             ELSE IF opening = "OSError"
             THEN /\ uploads' = [uploads EXCEPT ![c] =
                                   Answer(request, 500, "Failed to store uploaded file.")]
                  /\ UNCHANGED <<apk_dir, apk_files>>
             ELSE /\ uploads' = [uploads EXCEPT ![c] =
                                   [request EXCEPT !.pc = "reading", !.f_out = opened.f]]
                  /\ apk_dir' = opened.dir
                  /\ apk_files' = opened.files
    /\ UNCHANGED <<engine_vars, device_vars, parser_vars, dispatch_vars, manager_vars,
                   agent_vars>>

\* upload_app from the return of `await file.read()` to its answer: the write,
\* the two checksums, and os.remove or os.rename.
upload_app_store(c) ==
    /\ uploads[c].pc = "reading"
    /\ \E writing \in {"ok", "OSError"} :
          LET request == uploads[c]
              local_path == request.filename
              temp_path == TempPath(local_path)
              files == [apk_files EXCEPT ![request.f_out] = Written(@, request.content)]
          IN IF writing = "OSError"
             THEN /\ uploads' = [uploads EXCEPT ![c] =
                                   Answer(request, 500, "Failed to store uploaded file.")]
                  /\ UNCHANGED <<apk_dir, apk_files>>
             ELSE IF temp_path \notin DOMAIN apk_dir
             THEN \* compute_sha256(temp_path) raises; nothing in the handler catches it
                  /\ uploads' = [uploads EXCEPT ![c] =
                                   Answer(request, 500, "FileNotFoundError")]
                  /\ apk_files' = files
                  /\ UNCHANGED apk_dir
             ELSE IF local_path \in DOMAIN apk_dir
             THEN /\ uploads' = [uploads EXCEPT ![c] =
                        IF compute_sha256(apk_dir, files, local_path)
                              = compute_sha256(apk_dir, files, temp_path)
                        THEN Answer(request, 200, "File already exists")
                        ELSE Answer(request, 400, "conflict with different file.")]
                  /\ apk_files' = files
                  /\ apk_dir' = Remove(apk_dir, temp_path)
             ELSE /\ uploads' = [uploads EXCEPT ![c] = Answer(request, 200, "")]
                  /\ apk_files' = files
                  /\ apk_dir' = Put(Remove(apk_dir, temp_path), local_path, apk_dir[temp_path])
    /\ UNCHANGED uploads_started
    /\ UNCHANGED <<engine_vars, device_vars, parser_vars, dispatch_vars, manager_vars,
                   agent_vars>>

\* Nobody is between the two halves of upload_app.
NoUploadInFlight == \A c \in UploadClients : uploads[c].pc # "reading"

UploadNext ==
    \/ \E c \in UploadClients : upload_app_open(c)
    \/ \E c \in UploadClients : upload_app_store(c)

\* The clients make their requests one after the other.
UploadSerialNext ==
    \/ \E c \in UploadClients : NoUploadInFlight /\ upload_app_open(c)
    \/ \E c \in UploadClients : upload_app_store(c)

UploadInit ==
    /\ EngineParked
    /\ DeviceIdle
    /\ UnitIdle

UploadSpec == UploadInit /\ [][UploadNext]_vars
UploadSerialSpec == UploadInit /\ [][UploadSerialNext]_vars


-----------------------------------------------------------------------------
(* C38: upload_app and the stored files                                     *)

\* The bytes stored under a path of the apks directory.
StoredBytes(path) == apk_files[apk_dir[path]]

IsStored(path) == path \in DOMAIN apk_dir

\* Client c's upload_app call is answered in this step, and not with the
\* 500 of a failed open or write.
UploadAnswered(c) ==
    /\ uploads[c].pc = "reading"
    /\ uploads'[c].pc = "done"
    /\ uploads'[c].detail # "Failed to store uploaded file."

\* The stored file of the request's filename is what it was.
StoredFileKept(c) ==
    /\ IsStored(uploads[c].filename)
    /\ IsStored(uploads[c].filename)'
    /\ StoredBytes(uploads[c].filename)' = StoredBytes(uploads[c].filename)

\* Every path but the request's temporary one names the bytes it named.
OtherPathsKept(c) ==
    /\ DOMAIN apk_dir' \ {TempPath(uploads[c].filename)}
          = DOMAIN apk_dir \ {TempPath(uploads[c].filename)}
    /\ \A path \in DOMAIN apk_dir' \ {TempPath(uploads[c].filename)} :
          apk_files'[apk_dir'[path]] = apk_files[apk_dir[path]]

\* C38: an upload_app call for a filename that was stored when the call began
\* leaves the stored file as it was and answers ok when the uploaded bytes are
\* the stored ones and 400 when they differ; after it, and after a first
\* upload of a filename, no file is left at the filename's ".tmp" path; and an
\* upload of the bytes already stored leaves every other path as it was, so
\* that uploading a file twice ends where uploading it once does.
C38_UploadFrame ==
    [][\A c \in UploadClients :
          UploadAnswered(c) =>
             /\ ~IsStored(TempPath(uploads[c].filename))'
             /\ uploads[c].existed =>
                   /\ StoredFileKept(c)
                   /\ uploads'[c].http =
                         IF StoredBytes(uploads[c].filename) = uploads[c].content
                         THEN 200 ELSE 400
                   /\ StoredBytes(uploads[c].filename) = uploads[c].content
                         => OtherPathsKept(c)
             /\ ~uploads[c].existed => uploads'[c].http = 200]_vars

\* A second upload of stored bytes has been answered "File already exists".
SecondUploadAnswered ==
    \E c \in UploadClients :
       /\ uploads[c].pc = "done"
       /\ uploads[c].existed
       /\ uploads[c].detail = "File already exists"
       /\ IsStored(uploads[c].filename)
       /\ StoredBytes(uploads[c].filename) = uploads[c].content
       /\ ~IsStored(TempPath(uploads[c].filename))

\* An upload of a stored filename with other bytes has been refused.
ConflictingUploadRefused ==
    \E c \in UploadClients :
       /\ uploads[c].pc = "done"
       /\ uploads[c].existed
       /\ uploads[c].http = 400
       /\ IsStored(uploads[c].filename)
       /\ StoredBytes(uploads[c].filename) # uploads[c].content

====
